---- MODULE Spec2Model ----
(***************************************************************************)
(* Model of the in-memory device/fault registry with its statistics cache  *)
(* (internal/context/context.go).  Goroutines are the processes of Procs;  *)
(* every registry method is split at its lock acquisitions, so that the    *)
(* interleavings of mutators and statistics readers are explored.          *)
(*                                                                         *)
(* sync.RWMutex is modelled without writer preference: Go only restricts   *)
(* the order in which waiting goroutines are admitted, the model admits    *)
(* any order.                                                              *)
(***************************************************************************)
EXTENDS Integers, FiniteSets, Sequences, TLC

\* ------------------------------------------------------------------ bounds
NumProcs == 2
MaxDeviceID == 2
MaxFaultID == 1
MaxNow == 90
TickSeconds == 30

\* ------------------------------------------------------- program constants
Minute == 60
\* time.Duration saturates at its maximum (about 292 years); in seconds it is
\* beyond the integers of the model checker, which are capped at 2^31 - 1.
MaxDuration == 2147483647
FaultStatusActive == "active"
FaultStatusAcknowledged == "acknowledged"
FaultStatusResolved == "resolved"
FaultStatusExpired == "expired"
SeverityCritical == "critical"
SeverityMinor == "minor"
ErrFaultNotFound == "fault not found"

\* ------------------------------------------------------------ value spaces
Procs == 1..NumProcs
NoProc == 0
\* The main goroutine, which is the goroutine of the sequential specifications.
Main == 1
DeviceIDs == 1..MaxDeviceID
FaultIDs == 1..MaxFaultID
ZeroTime == -1
NilTime == -2
Actors == {"bob"}

\* models.Device, reduced to the fields the registry reads or writes.
Device(id, vendor, model, tags, online, lastSeen, conn) ==
    [ID |-> id, Manufacturer |-> vendor, ModelName |-> model, Tags |-> tags,
     Online |-> online, LastSeen |-> lastSeen, ConnectionStatus |-> conn]

\* models.Fault, reduced to the fields the registry reads or writes.
Fault(id, deviceID, severity, status) ==
    [ID |-> id, DeviceID |-> deviceID, Severity |-> severity, Status |-> status,
     AcknowledgedBy |-> "", AcknowledgedAt |-> NilTime,
     ResolvedBy |-> "", ResolvedAt |-> NilTime, Expiry |-> NilTime]

\* Devices handed to AddDevice by the concurrent callers.
ConcDevices ==
    { Device(id, "", "", {}, on, ZeroTime, "") : id \in {1}, on \in BOOLEAN }

\* Devices handed to AddDevice by the sequential caller.
SeqDevices ==
    { Device(id, "Acme", "X1", t, on, ZeroTime, "") :
        id \in DeviceIDs, t \in SUBSET {"x"}, on \in BOOLEAN }

\* The devices goroutine p upserts when every goroutine upserts its own.
UpsertDevices(p) ==
    { Device(p, v, "", {}, on, ZeroTime, "") : v \in {"", "Acme"}, on \in BOOLEAN }

\* Devices and faults of the registries whose statistics are computed.
AggDevices ==
    { Device(id, k[1], k[2], {}, k[3], ZeroTime, "") :
        id \in 1..(MaxDeviceID + 1),
        k \in { <<"", "", TRUE>>, <<"Acme", "X1", TRUE>>,
                <<"Acme", "", FALSE>>, <<"Unknown", "X1", FALSE>> } }

AggFaults ==
    { Fault(id, 1, k[1], k[2]) :
        id \in 1..(MaxFaultID + 1),
        k \in { <<SeverityCritical, FaultStatusActive>>,
                <<SeverityMinor, FaultStatusAcknowledged>>,
                <<SeverityMinor, FaultStatusResolved>>,
                <<SeverityCritical, FaultStatusExpired>> } }

\* models.Device with the further fields the filter reads.
FilterDevice(id, vendor, model, class, ip, tags, online) ==
    [ID |-> id, Manufacturer |-> vendor, ModelName |-> model, ProductClass |-> class,
     IPAddress |-> ip, Tags |-> tags, Online |-> online, LastSeen |-> ZeroTime,
     ConnectionStatus |-> ""]

\* Devices handed to AddDevice before the filtered listings.
FilterDevices ==
    { FilterDevice(id, k[1], k[2], k[3], k[4], k[5], k[6]) :
        id \in DeviceIDs,
        k \in { <<"Acme", "X1", "cpe", "10.0.0.1", {"x", "y"}, TRUE>>,
                <<"acme", "X1", "cpe", "10.0.0.5", {"x"}, TRUE>>,
                <<"Acme", "X2", "gw", "10.0.0.1", {}, FALSE>>,
                <<"Acme", "X1", "gw", "", {"y"}, FALSE>> } }

\* models.DeviceFilter, reduced to the fields matchesFilter reads; a nil
\* pointer field is the empty set, a set one the set of its value.
DeviceFilter(ipRange, vendor, model, class, tags, online) ==
    [isNil |-> FALSE, IPRange |-> ipRange, Manufacturer |-> vendor, ModelName |-> model,
     ProductClass |-> class, Tags |-> tags, Online |-> online]

\* The nil *models.DeviceFilter, and &models.DeviceFilter{}.
NilFilter == [isNil |-> TRUE]
EmptyFilter == DeviceFilter({}, "", "", "", <<>>, {})

\* Filters handed to GetFilteredDevices.
Filters ==
    {NilFilter} \cup
    { DeviceFilter(r, k[1], k[2], k[3], t, on) :
        r \in { {}, {[StartIP |-> "10.0.0.5", EndIP |-> "10.0.0.9"]} },
        k \in { <<"", "", "">>, <<"Acme", "", "">>, <<"", "X1", "">>,
                <<"", "", "cpe">>, <<"Acme", "X1", "cpe">> },
        t \in { <<>>, <<"x", "y">>, <<"z">> },
        on \in { {}, {TRUE}, {FALSE} } }

\* Devices with the serial number GetDeviceBySerial reads.
SerialDevice(id, serial) ==
    [ID |-> id, Manufacturer |-> "Acme", ModelName |-> "X1", SerialNumber |-> serial,
     Tags |-> {}, Online |-> TRUE, LastSeen |-> ZeroTime, ConnectionStatus |-> ""]

\* Serial numbers of the stored devices and of the lookups, and the devices
\* handed to AddDevice before the lookups: two devices can share a serial.
StoredSerials == {"", "S1", "S2"}
Serials == StoredSerials \cup {"S3"}
SerialDevices == { SerialDevice(id, s) : id \in DeviceIDs, s \in StoredSerials }

\* Devices stored before the tag requests, the filters of the listings that
\* run beside them, and the bodies of the requests to BulkUpdateTags.
TagDevices ==
    { FilterDevice(id, "Acme", "X1", "cpe", "10.0.0.1", t, TRUE) :
        id \in {1}, t \in { {}, {"x"} } }
TagFilters == { NilFilter, DeviceFilter({}, "", "", "", <<"x">>, {}) }
TagRequests ==
    [DeviceIDs : { {1}, {1, 2} }, Tags : { {"x"} },
     Operation : {"", "add", "remove", "replace", "merge"}]

\* JSON values of a GenieACS record, by their Go type after decoding, with
\* their JSON text.
JSONString(v) == [type |-> "string", v |-> v]
JSONNumber(v) == [type |-> "float64", v |-> v]

\* Device records of the ACS, without _lastInform: with an _id, with an _id
\* that is not a string, and with none.
GenieDevices ==
    { [_id |-> JSONString(id), _deviceId |-> [_Manufacturer |-> JSONString(v)]] :
        id \in {"dev-1", "dev-2"}, v \in {"Acme", "Zyx"} }
    \cup { [_id |-> JSONNumber("7"), _deviceId |-> [_Manufacturer |-> JSONString("Acme")]] }
    \cup { [_deviceId |-> [_Manufacturer |-> JSONString(v)]] : v \in {"Acme", "Zyx"} }

\* Fault records of the ACS: _id, device and code, each a JSON string; the
\* lists the ACS answers GET /faults with hold a fault identifier once.
GenieFault(id, device, code) ==
    [_id |-> JSONString(id), device |-> JSONString(device), code |-> JSONString(code)]
GenieFaults == { GenieFault(id, "d1", code) : id \in {"f1", "f2"}, code \in {"9012", "9003"} }
GenieFaultLists ==
    { <<>> } \cup { <<a>> : a \in GenieFaults }
        \cup { <<a, b>> : <<a, b>> \in { ab \in GenieFaults \X GenieFaults : ab[1]._id # ab[2]._id } }

\* The query of GET /faults: the filters and, as the texts of the URL, page
\* and pageSize. A text is the sequence of its characters.
FaultQuery(deviceId, status, severity, page, pageSize) ==
    [deviceId |-> deviceId, status |-> status, severity |-> severity,
     page |-> page, pageSize |-> pageSize]
NoQuery == FaultQuery("", "", "", <<>>, <<>>)

\* The texts of page and pageSize in the requests, each with the number it
\* writes if it writes one.
Numeral(text, value) == [text |-> text, numeric |-> TRUE, value |-> value]
NotNumeral(text) == [text |-> text, numeric |-> FALSE, value |-> 0]
PageTexts ==
    { NotNumeral(<<>>), NotNumeral(<<"a", "b", "c">>), NotNumeral(<<"1", "x">>),
      Numeral(<<"0">>, 0), Numeral(<<"-", "1">>, -1), Numeral(<<"1">>, 1),
      Numeral(<<"2">>, 2), Numeral(<<"+", "3">>, 3),
      Numeral(<<"3", "2", "7", "6", "7">>, 32767) }
PageSizeTexts ==
    { NotNumeral(<<>>), NotNumeral(<<"x">>), Numeral(<<"0">>, 0),
      Numeral(<<"-", "5">>, -5), Numeral(<<"1">>, 1), Numeral(<<"2">>, 2),
      Numeral(<<"3">>, 3), Numeral(<<"1", "0", "0">>, 100),
      Numeral(<<"1", "0", "1">>, 101) }
PageQueries ==
    { FaultQuery("", "", sev, p.text, ps.text) :
        sev \in {"", SeverityCritical}, p \in PageTexts, ps \in PageSizeTexts }

\* The lists the ACS answers the paged requests with: the first faults of
\* five, critical and minor in turn.
PageGenieFaults ==
    << GenieFault("f1", "d1", "9012"), GenieFault("f2", "d1", "9003"),
       GenieFault("f3", "d1", "9012"), GenieFault("f4", "d1", "9003"),
       GenieFault("f5", "d1", "9012") >>
PageFaultLists == { SubSeq(PageGenieFaults, 1, n) : n \in 0..Len(PageGenieFaults) }

\* The GenieACSStatus values handed to UpdateGenieACSStatus at time t: what
\* checkStatus builds when every service answers, and a caller's record of no
\* service answering, with its error and without a time of check.
StatusInputs(t) ==
    { [CWMPConnected |-> TRUE, NBIConnected |-> TRUE, FSConnected |-> TRUE,
       LastCheck |-> t, LastError |-> ""],
      [CWMPConnected |-> FALSE, NBIConnected |-> FALSE, FSConnected |-> FALSE,
       LastCheck |-> ZeroTime, LastError |-> "NBI service not available"] }

\* Faults handed to AddFault by the sequential caller, and the identifiers
\* and actors of its fault calls.
SeqFaultIDs == 1..(MaxFaultID + 1)
SeqFaults == { Fault(id, 1, SeverityCritical, FaultStatusActive) : id \in SeqFaultIDs }
SeqActors == {"alice", "bob"}

\* Faults handed to AddFault by the concurrent callers.
ConcFaults ==
    { Fault(id, 1, SeverityCritical, FaultStatusActive) : id \in FaultIDs }

VARIABLES
    devices,          \* c.devices: map from device id to device
    faults,           \* c.faults: map from fault id to fault
    statsCache,       \* c.statsCache: the published snapshot (id = its address)
    statsCacheTime,   \* c.statsCacheTime
    devicesMutex,     \* c.devicesMutex
    faultsMutex,      \* c.faultsMutex
    statsCacheMutex,  \* c.statsCacheMutex
    now,              \* the clock read by time.Now()
    pc,               \* position of every goroutine
    local,            \* arguments and locals of the call in progress
    response,         \* what the call that returned last has returned
    done,             \* history: the goroutine has completed a call
    quiet,            \* history: no mutator ran since the goroutine's GetDeviceStats began
    lastStats,        \* history: the last GetDeviceStats result, until a mutation or recompute
    computed,         \* history: when the cache was last computed, and invalidated since
    genieACSStatus,   \* c.genieACSStatus
    statusMutex,      \* c.statusMutex
    context,          \* the package variable context: nil or the instance
    once              \* the package variable once

registry == <<devices, faults>>
cache == <<statsCache, statsCacheTime>>
mutexes == <<devicesMutex, faultsMutex, statsCacheMutex>>
history == <<done, quiet, lastStats, computed>>
acs == <<genieACSStatus, statusMutex>>
singleton == <<context, once>>

vars == <<devices, faults, statsCache, statsCacheTime, devicesMutex,
          faultsMutex, statsCacheMutex, now, pc, local, response,
          done, quiet, lastStats, computed, genieACSStatus, statusMutex,
          context, once>>

\* ------------------------------------------------------------ sync.RWMutex
FreeMutex == [w |-> NoProc, r |-> {}]

\* A mutant of Lock() that excludes nobody.
CanLock_Always(m) == TRUE

\* Lock() returns once there is no writer and no reader.
CanLock(m) == m.w = NoProc /\ m.r = {}

\* A mutant of RLock() that does not wait for the writer.
CanRLock_Always(m) == TRUE

\* RLock() returns once there is no writer.
CanRLock(m) == m.w = NoProc

Lock(m, p) == [m EXCEPT !.w = p]
Unlock(m) == [m EXCEPT !.w = NoProc]
RLock(m, p) == [m EXCEPT !.r = @ \cup {p}]
RUnlock(m, p) == [m EXCEPT !.r = @ \ {p}]

\* ---------------------------------------------------------------- Go maps
\* A mutant of the map assignment that keeps the value of a key present.
MapSet_KeepExisting(m, k, v) ==
    [x \in DOMAIN m \cup {k} |-> IF x \in DOMAIN m THEN m[x] ELSE v]

\* m[k] = v
MapSet(m, k, v) == [x \in DOMAIN m \cup {k} |-> IF x = k THEN v ELSE m[x]]
MapDelete(m, k) == [x \in DOMAIN m \ {k} |-> m[x]]
EmptyMap == [x \in {} |-> 0]

\* A mutant of m[k]++ that starts every count again.
Increment_Restarts(m, k) == MapSet(m, k, 1)

\* m[k]++ on a map[string]int
Increment(m, k) == IF k \in DOMAIN m THEN [m EXCEPT ![k] = @ + 1] ELSE MapSet(m, k, 1)

\* ------------------------------------------------------------------- time
\* time.Since(t); the zero time.Time is centuries back, the result saturates.
Since(t) == IF t = ZeroTime THEN MaxDuration ELSE now - t

NoLocal == [op |-> "none"]
NoResponse == [kind |-> "none"]
NoStats == [id |-> 0, calledAt |-> NilTime, computedAt |-> NilTime]
NeverComputed == [at |-> NilTime, invalidated |-> FALSE]

\* GetContext: empty maps, an all-zero snapshot, the zero cache time.
InitialStats ==
    [TotalDevices |-> 0, OnlineDevices |-> 0, OfflineDevices |-> 0,
     DevicesByVendor |-> EmptyMap, DevicesByModel |-> EmptyMap,
     ActiveFaults |-> 0, CriticalFaults |-> 0]

\* The zero value of GenieACSStatus.
ZeroStatus ==
    [CWMPConnected |-> FALSE, NBIConnected |-> FALSE, FSConnected |-> FALSE,
     LastCheck |-> ZeroTime, LastError |-> ""]

\* The nil *Context (an instance is named by the goroutine that allocated
\* it), and a sync.Once before and after its first Do.
NilContext == 0
NewOnce == [done |-> FALSE, m |-> NoProc]
DoneOnce == [done |-> TRUE, m |-> NoProc]

\* The registry after the first GetContext of the process (app.go:59).
Init ==
    /\ genieACSStatus = ZeroStatus
    /\ statusMutex = FreeMutex
    /\ context = Main
    /\ once = DoneOnce
    /\ devices = EmptyMap
    /\ faults = EmptyMap
    /\ statsCache = [id |-> 1, stats |-> InitialStats]
    /\ statsCacheTime = ZeroTime
    /\ devicesMutex = FreeMutex
    /\ faultsMutex = FreeMutex
    /\ statsCacheMutex = FreeMutex
    /\ now = 0
    /\ pc = [p \in Procs |-> "idle"]
    /\ local = [p \in Procs |-> NoLocal]
    /\ response = NoResponse
    /\ done = [p \in Procs |-> FALSE]
    /\ quiet = [p \in Procs |-> FALSE]
    /\ lastStats = NoStats
    /\ computed = NeverComputed

\* -------------------------------------------------------- updateStatsCache
\* The loop over c.devices (lines 275-295), one device per iteration.
RECURSIVE CountDevices(_, _, _)
CountDevices(devs, ids, stats) ==
    IF ids = {} THEN stats
    ELSE LET id == CHOOSE x \in ids : TRUE
             device == devs[id]
             vendor == IF device.Manufacturer = "" THEN "Unknown" ELSE device.Manufacturer
             model == IF device.ModelName = "" THEN "Unknown" ELSE device.ModelName
             counted ==
                 [stats EXCEPT
                    !.OnlineDevices = IF device.Online THEN @ + 1 ELSE @,
                    !.OfflineDevices = IF device.Online THEN @ ELSE @ + 1,
                    !.DevicesByVendor = Increment(@, vendor),
                    !.DevicesByModel = Increment(@, model)]
         IN  CountDevices(devs, ids \ {id}, counted)

\* A mutant of the loop over c.faults that leaves acknowledged faults out.
IsActiveFault_OnlyActive(fault) == fault.Status = FaultStatusActive

\* Whether the loop over c.faults counts a fault as active (line 299).
IsActiveFault(fault) ==
    fault.Status = FaultStatusActive \/ fault.Status = FaultStatusAcknowledged

\* The loop over c.faults (lines 298-305), one fault per iteration.
RECURSIVE CountFaults(_, _, _)
CountFaults(flts, ids, stats) ==
    IF ids = {} THEN stats
    ELSE LET id == CHOOSE x \in ids : TRUE
             fault == flts[id]
             counted ==
                 IF IsActiveFault(fault)
                 THEN [stats EXCEPT
                         !.ActiveFaults = @ + 1,
                         !.CriticalFaults =
                             IF fault.Severity = SeverityCritical THEN @ + 1 ELSE @]
                 ELSE stats
         IN  CountFaults(flts, ids \ {id}, counted)

\* The snapshot updateStatsCache builds from the two maps (lines 264-305).
ComputeStats(devs, flts) ==
    LET start == [InitialStats EXCEPT !.TotalDevices = Cardinality(DOMAIN devs)]
    IN  CountFaults(flts, DOMAIN flts, CountDevices(devs, DOMAIN devs, start))

\* Addresses of snapshot objects: one more than can be referenced at once.
SnapIDs == 1..(NumProcs + 4)

\* The snapshot objects the cache or a caller still refers to.
LiveSnapIDs ==
    {statsCache.id, lastStats.id}
        \cup (IF response.kind = "GetDeviceStats"
              THEN {response.snap.id, response.prev.id} ELSE {})
        \cup { local[p].prev.id : p \in { q \in Procs : local[q].op = "GetDeviceStats" } }

\* The address of the snapshot a recompute allocates: not one still referred to.
NewSnapID ==
    CHOOSE i \in SnapIDs : i \notin LiveSnapIDs /\ \A j \in SnapIDs : j < i => j \in LiveSnapIDs

\* The process before its first GetContext: no instance, and the registry
\* variables hold what the instance will hold when it is allocated.
InitProcess ==
    /\ genieACSStatus = ZeroStatus
    /\ statusMutex = FreeMutex
    /\ context = NilContext
    /\ once = NewOnce
    /\ devices = EmptyMap
    /\ faults = EmptyMap
    /\ statsCache = [id |-> 1, stats |-> InitialStats]
    /\ statsCacheTime = ZeroTime
    /\ devicesMutex = FreeMutex
    /\ faultsMutex = FreeMutex
    /\ statsCacheMutex = FreeMutex
    /\ now = 0
    /\ pc = [p \in Procs |-> "idle"]
    /\ local = [p \in Procs |-> NoLocal]
    /\ response = NoResponse
    /\ done = [p \in Procs |-> FALSE]
    /\ quiet = [p \in Procs |-> FALSE]
    /\ lastStats = NoStats
    /\ computed = NeverComputed

\* ------------------------------------------------------------ history
\* A call that changes the registry is in progress in goroutine q.
InMutator(q) ==
    pc[q] \in {"AddDevice", "RemoveDevice", "UpdateDeviceStatus", "devices_invalidate",
               "devices_unlock", "AddFault", "AcknowledgeFault", "ResolveFault",
               "faults_invalidate", "faults_unlock", "SBI_DeleteFault_AddFault"}

\* A mutator begins: no GetDeviceStats in progress is undisturbed any more.
MutatorBegins ==
    /\ quiet' = [q \in Procs |-> FALSE]
    /\ lastStats' = NoStats
    /\ UNCHANGED <<acs, singleton, done, computed>>

\* A mutator changes the registry.
MutatorActs ==
    /\ lastStats' = NoStats
    /\ UNCHANGED <<acs, singleton, done, quiet, computed>>

\* A call of goroutine p returns.
Returns(p) == done' = [done EXCEPT ![p] = TRUE]

\* -------------------------------------------------------------- GetContext
\* What GetContext returns to goroutine p.
GetContext_Result(p) ==
    [kind |-> "GetContext", ref |-> context, by |-> p,
     prev |-> IF response.kind = "GetContext" THEN response.ref ELSE NilContext]

\* once.Do when the function has run: GetContext returns context.
GetContext_Fast(p) ==
    /\ pc[p] = "idle"
    /\ once.done
    /\ response' = GetContext_Result(p)
    /\ Returns(p)
    /\ UNCHANGED <<acs, singleton, registry, cache, mutexes, now, pc, local, quiet,
                   lastStats, computed>>

\* A mutant of once.Do that tests context for nil and takes no lock.
GetContext_Slow_NoOnce(p) ==
    /\ pc[p] = "idle"
    /\ context = NilContext
    /\ pc' = [pc EXCEPT ![p] = "GetContext_init"]
    /\ local' = [local EXCEPT ![p] = [op |-> "GetContext"]]
    /\ response' = NoResponse
    /\ UNCHANGED <<acs, singleton, registry, cache, mutexes, now, history>>

\* once.Do when the function has not run: the goroutine that gets the lock
\* of once runs it, the others wait for the lock.
GetContext_Slow(p) ==
    /\ pc[p] = "idle"
    /\ ~once.done
    /\ once.m = NoProc
    /\ once' = [once EXCEPT !.m = p]
    /\ pc' = [pc EXCEPT ![p] = "GetContext_init"]
    /\ local' = [local EXCEPT ![p] = [op |-> "GetContext"]]
    /\ response' = NoResponse
    /\ UNCHANGED <<acs, context, registry, cache, mutexes, now, history>>

\* The function of once.Do: context = &Context{...} with its empty maps and
\* all-zero snapshot; once is done and its lock released.
GetContext_Init(p) ==
    /\ pc[p] = "GetContext_init"
    /\ context' = p
    /\ devices' = EmptyMap
    /\ faults' = EmptyMap
    /\ statsCache' = [id |-> 1, stats |-> InitialStats]
    /\ statsCacheTime' = ZeroTime
    /\ genieACSStatus' = ZeroStatus
    /\ once' = DoneOnce
    /\ pc' = [pc EXCEPT ![p] = "GetContext_return"]
    /\ UNCHANGED <<statusMutex, mutexes, now, local, response, history>>

\* return context, after once.Do has run the function.
GetContext_Return(p) ==
    /\ pc[p] = "GetContext_return"
    /\ response' = GetContext_Result(p)
    /\ pc' = [pc EXCEPT ![p] = "idle"]
    /\ local' = [local EXCEPT ![p] = NoLocal]
    /\ Returns(p)
    /\ UNCHANGED <<acs, singleton, registry, cache, mutexes, now, quiet, lastStats, computed>>

\* ------------------------------------------------------------ device calls
\* AddDevice: devicesMutex.Lock(), and the map assignment reads the table.
AddDevice_Lock(p, d) ==
    /\ pc[p] = "idle"
    /\ CanLock(devicesMutex)
    /\ devicesMutex' = Lock(devicesMutex, p)
    /\ pc' = [pc EXCEPT ![p] = "AddDevice"]
    /\ local' = [local EXCEPT ![p] = [op |-> "AddDevice", arg |-> d, m |-> devices]]
    /\ response' = NoResponse
    /\ MutatorBegins
    /\ UNCHANGED <<acs, singleton, registry, cache, faultsMutex, statsCacheMutex, now>>

\* A mutant of AddDevice that merges the tags of the device it overwrites.
AddDevice_Write_MergesTags(p) ==
    LET d == local[p].arg
        old == local[p].m
        merged == IF d.ID \in DOMAIN old
                  THEN [d EXCEPT !.Tags = @ \cup old[d.ID].Tags] ELSE d
    IN  /\ pc[p] = "AddDevice"
        /\ devices' = MapSet(old, d.ID, merged)
        /\ pc' = [pc EXCEPT ![p] = "devices_invalidate"]
        /\ lastStats' = NoStats
        /\ UNCHANGED <<acs, singleton, faults, cache, mutexes, now, local, response, done, quiet, computed>>

\* AddDevice: c.devices[device.ID] = device stores the updated table.
AddDevice_Write(p) ==
    /\ pc[p] = "AddDevice"
    /\ devices' = MapSet(local[p].m, local[p].arg.ID, local[p].arg)
    /\ pc' = [pc EXCEPT ![p] = "devices_invalidate"]
    /\ MutatorActs
    /\ UNCHANGED <<acs, singleton, faults, cache, mutexes, now, local, response>>

\* RemoveDevice: devicesMutex.Lock(), and delete reads the table.
RemoveDevice_Lock(p, deviceID) ==
    /\ pc[p] = "idle"
    /\ CanLock(devicesMutex)
    /\ devicesMutex' = Lock(devicesMutex, p)
    /\ pc' = [pc EXCEPT ![p] = "RemoveDevice"]
    /\ local' = [local EXCEPT ![p] =
                   [op |-> "RemoveDevice", arg |-> deviceID, m |-> devices]]
    /\ response' = NoResponse
    /\ MutatorBegins
    /\ UNCHANGED <<acs, singleton, registry, cache, faultsMutex, statsCacheMutex, now>>

\* A mutant of RemoveDevice that returns without invalidating the cache when
\* the identifier is not stored.
RemoveDevice_Write_SkipsMissing(p) ==
    /\ pc[p] = "RemoveDevice"
    /\ devices' = MapDelete(local[p].m, local[p].arg)
    /\ pc' = [pc EXCEPT ![p] = IF local[p].arg \in DOMAIN local[p].m
                               THEN "devices_invalidate" ELSE "devices_unlock"]
    /\ MutatorActs
    /\ UNCHANGED <<faults, cache, mutexes, now, local, response>>

\* A mutant of RemoveDevice that empties the table.
RemoveDevice_Write_Clears(p) ==
    /\ pc[p] = "RemoveDevice"
    /\ devices' = EmptyMap
    /\ pc' = [pc EXCEPT ![p] = "devices_invalidate"]
    /\ MutatorActs
    /\ UNCHANGED <<acs, singleton, faults, cache, mutexes, now, local, response>>

\* RemoveDevice: delete(c.devices, deviceID) stores the updated table.
RemoveDevice_Write(p) ==
    /\ pc[p] = "RemoveDevice"
    /\ devices' = MapDelete(local[p].m, local[p].arg)
    /\ pc' = [pc EXCEPT ![p] = "devices_invalidate"]
    /\ MutatorActs
    /\ UNCHANGED <<acs, singleton, faults, cache, mutexes, now, local, response>>

\* UpdateDeviceStatus on a device that exists: devicesMutex.Lock() and the lookup.
UpdateDeviceStatus_Lock(p, deviceID, online) ==
    /\ pc[p] = "idle"
    /\ CanLock(devicesMutex)
    /\ deviceID \in DOMAIN devices
    /\ devicesMutex' = Lock(devicesMutex, p)
    /\ pc' = [pc EXCEPT ![p] = "UpdateDeviceStatus"]
    /\ local' = [local EXCEPT ![p] =
                   [op |-> "UpdateDeviceStatus",
                    arg |-> [deviceID |-> deviceID, online |-> online], m |-> devices]]
    /\ response' = NoResponse
    /\ MutatorBegins
    /\ UNCHANGED <<acs, singleton, registry, cache, faultsMutex, statsCacheMutex, now>>

\* UpdateDeviceStatus: the three field assignments through the stored pointer.
UpdateDeviceStatus_Write(p) ==
    /\ pc[p] = "UpdateDeviceStatus"
    /\ devices' = [devices EXCEPT
                     ![local[p].arg.deviceID].Online = local[p].arg.online,
                     ![local[p].arg.deviceID].LastSeen = now,
                     ![local[p].arg.deviceID].ConnectionStatus =
                         IF local[p].arg.online THEN "connected" ELSE "disconnected"]
    /\ pc' = [pc EXCEPT ![p] = "devices_invalidate"]
    /\ MutatorActs
    /\ UNCHANGED <<acs, singleton, faults, cache, mutexes, now, local, response>>

\* A mutant of UpdateDeviceStatus that invalidates the cache for an
\* identifier that is not stored.
UpdateDeviceStatus_Missing_Invalidates(p, deviceID) ==
    /\ pc[p] = "idle"
    /\ CanLock(devicesMutex)
    /\ deviceID \notin DOMAIN devices
    /\ statsCacheTime' = ZeroTime
    /\ response' = [kind |-> "UpdateDeviceStatus", missing |-> deviceID]
    /\ Returns(p)
    /\ UNCHANGED <<acs, singleton, registry, statsCache, mutexes, now, pc, local, quiet,
                   lastStats, computed>>

\* UpdateDeviceStatus on an identifier that is not stored: lock, lookup, unlock.
UpdateDeviceStatus_Missing(p, deviceID) ==
    /\ pc[p] = "idle"
    /\ CanLock(devicesMutex)
    /\ deviceID \notin DOMAIN devices
    /\ response' = [kind |-> "UpdateDeviceStatus", missing |-> deviceID]
    /\ Returns(p)
    /\ UNCHANGED <<acs, singleton, registry, cache, mutexes, now, pc, local, quiet, lastStats, computed>>

\* A mutant of invalidateStatsCache that also zeroes the published snapshot.
invalidateStatsCache_ClearsSnapshot(p, from, to) ==
    /\ pc[p] = from
    /\ CanLock(statsCacheMutex)
    /\ statsCacheTime' = ZeroTime
    /\ statsCache' = [statsCache EXCEPT !.stats = InitialStats]
    /\ pc' = [pc EXCEPT ![p] = to]
    /\ lastStats' = NoStats
    /\ computed' = [computed EXCEPT !.invalidated = TRUE]
    /\ UNCHANGED <<acs, singleton, registry, mutexes, now, local, response, done, quiet>>

\* A mutant of invalidateStatsCache that leaves the cache time as it is.
invalidateStatsCache_KeepsTime(p, from, to) ==
    /\ pc[p] = from
    /\ CanLock(statsCacheMutex)
    /\ pc' = [pc EXCEPT ![p] = to]
    /\ lastStats' = NoStats
    /\ computed' = [computed EXCEPT !.invalidated = TRUE]
    /\ UNCHANGED <<acs, singleton, registry, cache, mutexes, now, local, response, done, quiet>>

\* invalidateStatsCache: statsCacheMutex.Lock(), the zero time, Unlock().
invalidateStatsCache(p, from, to) ==
    /\ pc[p] = from
    /\ CanLock(statsCacheMutex)
    /\ statsCacheTime' = ZeroTime
    /\ pc' = [pc EXCEPT ![p] = to]
    /\ lastStats' = NoStats
    /\ computed' = [computed EXCEPT !.invalidated = TRUE]
    /\ UNCHANGED <<acs, singleton, registry, statsCache, mutexes, now, local, response, done, quiet>>

\* The call of invalidateStatsCache that ends every device mutator.
Devices_Invalidate(p) == invalidateStatsCache(p, "devices_invalidate", "devices_unlock")

\* The deferred devicesMutex.Unlock() of a device mutator, and its return.
Devices_Unlock(p) ==
    /\ pc[p] = "devices_unlock"
    /\ devicesMutex' = Unlock(devicesMutex)
    /\ pc' = [pc EXCEPT ![p] = "idle"]
    /\ response' = [kind |-> local[p].op, arg |-> local[p].arg]
    /\ local' = [local EXCEPT ![p] = NoLocal]
    /\ Returns(p)
    /\ UNCHANGED <<acs, singleton, registry, cache, faultsMutex, statsCacheMutex, now, quiet,
                   lastStats, computed>>

\* The result of the lookup c.devices[deviceID] of GetDevice.
Lookup(m, id) ==
    IF id \in DOMAIN m THEN [exists |-> TRUE, value |-> m[id]] ELSE [exists |-> FALSE]

\* GetDevice: the lookup under devicesMutex.RLock().
GetDevice(p, deviceID) ==
    /\ pc[p] = "idle"
    /\ CanRLock(devicesMutex)
    /\ response' = [kind |-> "GetDevice", deviceID |-> deviceID,
                    found |-> Lookup(devices, deviceID),
                    after |-> IF response.kind = "AddDevice" THEN response
                              ELSE NoResponse]
    /\ Returns(p)
    /\ UNCHANGED <<acs, singleton, registry, cache, mutexes, now, pc, local, quiet, lastStats, computed>>

\* GetAllDevices: the slice of all stored devices, under devicesMutex.RLock().
GetAllDevices(p) ==
    /\ pc[p] = "idle"
    /\ CanRLock(devicesMutex)
    /\ response' = [kind |-> "GetAllDevices", len |-> Cardinality(DOMAIN devices),
                    devices |-> { devices[k] : k \in DOMAIN devices }]
    /\ Returns(p)
    /\ UNCHANGED <<acs, singleton, registry, cache, mutexes, now, pc, local, quiet, lastStats, computed>>

\* A mutant of GetDeviceBySerial that returns the first device of the
\* iteration once some device has the serial number.
GetDeviceBySerial_AnyDevice(p, serial) ==
    LET matches == { k \in DOMAIN devices : devices[k].SerialNumber = serial }
    IN  /\ pc[p] = "idle"
        /\ CanRLock(devicesMutex)
        /\ \/ /\ matches # {}
              /\ \E k \in DOMAIN devices :
                    response' = [kind |-> "GetDeviceBySerial", serial |-> serial,
                                 found |-> TRUE, device |-> devices[k]]
           \/ /\ matches = {}
              /\ response' = [kind |-> "GetDeviceBySerial", serial |-> serial,
                              found |-> FALSE]
        /\ Returns(p)
        /\ UNCHANGED <<acs, singleton, registry, cache, mutexes, now, pc, local, quiet,
                       lastStats, computed>>

\* GetDeviceBySerial: under devicesMutex.RLock(), the loop over c.devices
\* returns the first device with the serial number, in the iteration order of
\* the map, which Go leaves open; nil and false when the loop ends.
GetDeviceBySerial(p, serial) ==
    LET matches == { k \in DOMAIN devices : devices[k].SerialNumber = serial }
    IN  /\ pc[p] = "idle"
        /\ CanRLock(devicesMutex)
        /\ \/ /\ matches # {}
              /\ \E k \in matches :
                    response' = [kind |-> "GetDeviceBySerial", serial |-> serial,
                                 found |-> TRUE, device |-> devices[k]]
           \/ /\ matches = {}
              /\ response' = [kind |-> "GetDeviceBySerial", serial |-> serial,
                              found |-> FALSE]
        /\ Returns(p)
        /\ UNCHANGED <<acs, singleton, registry, cache, mutexes, now, pc, local, quiet,
                       lastStats, computed>>

\* -------------------------------------------------------- devices of the ACS
\* getString: m[key].(string), or "".
getString(m, key) ==
    IF key \in DOMAIN m /\ m[key].type = "string" THEN m[key].v ELSE ""

\* convertGenieDevice, for a record without _lastInform and without tags:
\* device.ID stays "" unless genieDevice["_id"] is a string.
convertGenieDevice(genieDevice) ==
    LET id == IF "_id" \in DOMAIN genieDevice /\ genieDevice["_id"].type = "string"
              THEN genieDevice["_id"].v ELSE ""
        deviceIdMap == genieDevice["_deviceId"]
    IN  IF "_deviceId" \in DOMAIN genieDevice
        THEN Device(id, getString(deviceIdMap, "_Manufacturer"),
                    getString(deviceIdMap, "_ModelName"), {}, TRUE, ZeroTime, "")
        ELSE Device(id, "", "", {}, TRUE, ZeroTime, "")

\* The handler of the overview page stores a device it fetched from the ACS.
Overview_AddDevice(p, genieDevice) == AddDevice_Lock(p, convertGenieDevice(genieDevice))

\* ----------------------------------------------------------- device filter
\* A mutant of isIPInRange that matches the ends of the range only.
isIPInRange_Ends(ip, startIP, endIP) == ip = startIP \/ ip = endIP

\* isIPInRange: the placeholder.
isIPInRange(ip, startIP, endIP) == TRUE

\* A mutant of the loop over filter.Tags that is content with one tag.
RECURSIVE hasTags_Any(_, _)
hasTags_Any(device, tags) ==
    IF tags = <<>> THEN FALSE
    ELSE IF Head(tags) \in device.Tags THEN TRUE
    ELSE hasTags_Any(device, Tail(tags))

\* The loop over filter.Tags of matchesFilter (lines 372-376): FALSE at the
\* first tag for which device.Tags[tag] is not true.
RECURSIVE hasTags(_, _)
hasTags(device, tags) ==
    IF tags = <<>> THEN TRUE
    ELSE IF Head(tags) \notin device.Tags THEN FALSE
    ELSE hasTags(device, Tail(tags))

\* matchesFilter for a filter that is not nil: the checks in their order.
matchesCriteria(device, filter) ==
    LET range == CHOOSE r \in filter.IPRange : TRUE
    IN  IF filter.IPRange # {}
           /\ ~isIPInRange(device.IPAddress, range.StartIP, range.EndIP)
        THEN FALSE
        ELSE IF filter.Manufacturer # "" /\ device.Manufacturer # filter.Manufacturer
        THEN FALSE
        ELSE IF filter.ModelName # "" /\ device.ModelName # filter.ModelName
        THEN FALSE
        ELSE IF filter.ProductClass # "" /\ device.ProductClass # filter.ProductClass
        THEN FALSE
        ELSE IF filter.Online # {} /\ device.Online \notin filter.Online
        THEN FALSE
        ELSE IF Len(filter.Tags) > 0 /\ ~hasTags(device, filter.Tags)
        THEN FALSE
        ELSE TRUE

\* A mutant of matchesFilter for which a nil filter matches nothing.
matchesFilter_NilRejects(device, filter) ==
    IF filter = NilFilter THEN FALSE ELSE matchesCriteria(device, filter)

\* matchesFilter
matchesFilter(device, filter) ==
    IF filter = NilFilter THEN TRUE ELSE matchesCriteria(device, filter)

\* A mutant of GetFilteredDevices that invalidates the statistics cache.
GetFilteredDevices_Invalidates(p, filter) ==
    /\ pc[p] = "idle"
    /\ CanRLock(devicesMutex)
    /\ response' = [kind |-> "GetFilteredDevices", filter |-> filter,
                    devices |-> { devices[k] : k \in
                                    { x \in DOMAIN devices : matchesFilter(devices[x], filter) } }]
    /\ statsCacheTime' = ZeroTime
    /\ lastStats' = NoStats
    /\ computed' = [computed EXCEPT !.invalidated = TRUE]
    /\ done' = [done EXCEPT ![p] = TRUE]
    /\ UNCHANGED <<acs, singleton, registry, statsCache, mutexes, now, pc, local, quiet>>

\* GetFilteredDevices: under devicesMutex.RLock(), the stored devices that
\* matchesFilter accepts.
GetFilteredDevices(p, filter) ==
    /\ pc[p] = "idle"
    /\ CanRLock(devicesMutex)
    /\ response' = [kind |-> "GetFilteredDevices", filter |-> filter,
                    devices |-> { devices[k] : k \in
                                    { x \in DOMAIN devices : matchesFilter(devices[x], filter) } }]
    /\ Returns(p)
    /\ UNCHANGED <<acs, singleton, registry, cache, mutexes, now, pc, local, quiet, lastStats, computed>>

\* GetFilteredDevices in its steps, for the writers that do not take the
\* lock: devicesMutex.RLock().
GetFilteredDevices_RLock(p, filter) ==
    /\ pc[p] = "idle"
    /\ CanRLock(devicesMutex)
    /\ devicesMutex' = RLock(devicesMutex, p)
    /\ pc' = [pc EXCEPT ![p] = "GetFilteredDevices"]
    /\ local' = [local EXCEPT ![p] = [op |-> "GetFilteredDevices", filter |-> filter]]
    /\ response' = NoResponse
    /\ UNCHANGED <<acs, singleton, registry, cache, faultsMutex, statsCacheMutex, now, history>>

\* The loop over c.devices with matchesFilter, and the deferred RUnlock().
GetFilteredDevices_Scan(p) ==
    /\ pc[p] = "GetFilteredDevices"
    /\ devicesMutex' = RUnlock(devicesMutex, p)
    /\ response' = [kind |-> "GetFilteredDevices", filter |-> local[p].filter,
                    devices |-> { devices[k] : k \in
                                    { x \in DOMAIN devices :
                                        matchesFilter(devices[x], local[p].filter) } }]
    /\ pc' = [pc EXCEPT ![p] = "idle"]
    /\ local' = [local EXCEPT ![p] = NoLocal]
    /\ Returns(p)
    /\ UNCHANGED <<acs, singleton, registry, cache, faultsMutex, statsCacheMutex, now, quiet,
                   lastStats, computed>>

\* ----------------------------------------------------------- BulkUpdateTags
\* producer.BulkUpdateTags: the body is bound, the operation defaults to add.
BulkUpdateTags_Bind(p, req) ==
    /\ pc[p] = "idle"
    /\ pc' = [pc EXCEPT ![p] = "BulkUpdateTags"]
    /\ local' = [local EXCEPT ![p] =
                   [op |-> "BulkUpdateTags", todo |-> req.DeviceIDs, Tags |-> req.Tags,
                    Operation |-> IF req.Operation = "" THEN "add" ELSE req.Operation,
                    device |-> 0, successful |-> 0, failed |-> 0]]
    /\ response' = NoResponse
    /\ UNCHANGED <<acs, singleton, registry, cache, mutexes, now, history>>

\* The next device of the request: appContext.GetDevice under the read lock;
\* a device that is not stored, or an operation that is none of the three,
\* counts as failed.
BulkUpdateTags_GetDevice(p) ==
    /\ pc[p] = "BulkUpdateTags"
    /\ CanRLock(devicesMutex)
    /\ \E id \in local[p].todo :
          IF id \in DOMAIN devices /\ local[p].Operation \in {"add", "remove", "replace"}
          THEN /\ pc' = [pc EXCEPT ![p] = "BulkUpdateTags_tags"]
               /\ local' = [local EXCEPT ![p].device = id]
          ELSE /\ pc' = pc
               /\ local' = [local EXCEPT ![p].todo = @ \ {id}, ![p].failed = @ + 1]
    /\ UNCHANGED <<acs, singleton, registry, cache, mutexes, now, response, history>>

\* The switch: the tags are written through the pointer GetDevice returned,
\* with no lock held.
BulkUpdateTags_WriteTags(p) ==
    /\ pc[p] = "BulkUpdateTags_tags"
    /\ devices' = [devices EXCEPT ![local[p].device].Tags =
                     CASE local[p].Operation = "add" -> @ \cup local[p].Tags
                       [] local[p].Operation = "remove" -> @ \ local[p].Tags
                       [] local[p].Operation = "replace" -> local[p].Tags]
    /\ pc' = [pc EXCEPT ![p] = "BulkUpdateTags_AddDevice"]
    /\ MutatorBegins
    /\ UNCHANGED <<faults, cache, mutexes, now, local, response>>

\* appContext.AddDevice(device) with that pointer, from its Lock to its
\* Unlock: the table keeps the pointer, the cache is invalidated.
BulkUpdateTags_AddDevice(p) ==
    /\ pc[p] = "BulkUpdateTags_AddDevice"
    /\ CanLock(devicesMutex)
    /\ CanLock(statsCacheMutex)
    /\ devices' = MapSet(devices, local[p].device, devices[local[p].device])
    /\ statsCacheTime' = ZeroTime
    /\ computed' = [computed EXCEPT !.invalidated = TRUE]
    /\ lastStats' = NoStats
    /\ pc' = [pc EXCEPT ![p] = "BulkUpdateTags"]
    /\ local' = [local EXCEPT ![p].todo = @ \ {local[p].device},
                              ![p].successful = @ + 1, ![p].device = 0]
    /\ UNCHANGED <<acs, singleton, faults, statsCache, mutexes, now, response, done, quiet>>

\* The loop has ended: the counts are answered with their status code.
BulkUpdateTags_Respond(p) ==
    /\ pc[p] = "BulkUpdateTags"
    /\ local[p].todo = {}
    /\ response' = [kind |-> "BulkUpdateTags", successful |-> local[p].successful,
                    failed |-> local[p].failed,
                    code |-> IF local[p].failed > 0 /\ local[p].successful = 0
                             THEN "InternalServerError"
                             ELSE IF local[p].failed > 0 THEN "PartialContent" ELSE "OK"]
    /\ pc' = [pc EXCEPT ![p] = "idle"]
    /\ local' = [local EXCEPT ![p] = NoLocal]
    /\ Returns(p)
    /\ UNCHANGED <<acs, singleton, registry, cache, mutexes, now, quiet, lastStats, computed>>

\* ------------------------------------------------------------- fault calls
\* A mutant of AddFault that takes the devices lock as well.
AddFault_From_LocksDevices(p, from, f) ==
    /\ pc[p] = from
    /\ CanLock(faultsMutex)
    /\ faultsMutex' = Lock(faultsMutex, p)
    /\ CanLock(devicesMutex)
    /\ devicesMutex' = Lock(devicesMutex, p)
    /\ pc' = [pc EXCEPT ![p] = "AddFault"]
    /\ local' = [local EXCEPT ![p] =
                   [op |-> "AddFault", arg |-> f, m |-> faults, via |-> from]]
    /\ response' = NoResponse
    /\ MutatorBegins
    /\ UNCHANGED <<acs, singleton, registry, cache, statsCacheMutex, now>>

\* AddFault, called where goroutine p is at `from`: faultsMutex.Lock(), and
\* the map assignment reads the table.
AddFault_From(p, from, f) ==
    /\ pc[p] = from
    /\ CanLock(faultsMutex)
    /\ faultsMutex' = Lock(faultsMutex, p)
    /\ pc' = [pc EXCEPT ![p] = "AddFault"]
    /\ local' = [local EXCEPT ![p] =
                   [op |-> "AddFault", arg |-> f, m |-> faults, via |-> from]]
    /\ response' = NoResponse
    /\ MutatorBegins
    /\ UNCHANGED <<acs, singleton, registry, cache, devicesMutex, statsCacheMutex, now>>

\* AddFault called by a goroutine that is in no other call.
AddFault_Lock(p, f) == AddFault_From(p, "idle", f)

\* AddFault: c.faults[fault.ID] = fault stores the updated table.
AddFault_Write(p) ==
    /\ pc[p] = "AddFault"
    /\ faults' = MapSet(local[p].m, local[p].arg.ID, local[p].arg)
    /\ pc' = [pc EXCEPT ![p] = "faults_invalidate"]
    /\ MutatorActs
    /\ UNCHANGED <<acs, singleton, devices, cache, mutexes, now, local, response>>

\* AcknowledgeFault on a fault that exists, called where goroutine p is at `from`:
\* faultsMutex.Lock() and the lookup.
AcknowledgeFault_From(p, from, faultID, acknowledgedBy) ==
    /\ pc[p] = from
    /\ CanLock(faultsMutex)
    /\ faultID \in DOMAIN faults
    /\ faultsMutex' = Lock(faultsMutex, p)
    /\ pc' = [pc EXCEPT ![p] = "AcknowledgeFault"]
    /\ local' = [local EXCEPT ![p] =
                   [op |-> "AcknowledgeFault", arg |-> [faultID |-> faultID, by |-> acknowledgedBy],
                    m |-> faults, via |-> from]]
    /\ response' = NoResponse
    /\ MutatorBegins
    /\ UNCHANGED <<acs, singleton, registry, cache, devicesMutex, statsCacheMutex, now>>

\* AcknowledgeFault called by a goroutine that is in no other call.
AcknowledgeFault_Lock(p, faultID, acknowledgedBy) == AcknowledgeFault_From(p, "idle", faultID, acknowledgedBy)

\* A mutant of AcknowledgeFault that keeps the actor and time of an earlier
\* acknowledgement.
AcknowledgeFault_Write_KeepsFirst(p) ==
    LET id == local[p].arg.faultID
        first == faults[id].AcknowledgedAt = NilTime
    IN  /\ pc[p] = "AcknowledgeFault"
        /\ faults' = [faults EXCEPT
                        ![id].Status = FaultStatusAcknowledged,
                        ![id].AcknowledgedBy = IF first THEN local[p].arg.by ELSE @,
                        ![id].AcknowledgedAt = IF first THEN now ELSE @]
        /\ pc' = [pc EXCEPT ![p] = "faults_invalidate"]
        /\ lastStats' = NoStats
        /\ UNCHANGED <<acs, singleton, devices, cache, mutexes, now, local, response, done, quiet, computed>>

\* AcknowledgeFault: the three field assignments through the stored pointer.
AcknowledgeFault_Write(p) ==
    /\ pc[p] = "AcknowledgeFault"
    /\ faults' = [faults EXCEPT
                    ![local[p].arg.faultID].Status = FaultStatusAcknowledged,
                    ![local[p].arg.faultID].AcknowledgedBy = local[p].arg.by,
                    ![local[p].arg.faultID].AcknowledgedAt = now]
    /\ pc' = [pc EXCEPT ![p] = "faults_invalidate"]
    /\ MutatorActs
    /\ UNCHANGED <<acs, singleton, devices, cache, mutexes, now, local, response>>

\* AcknowledgeFault_Write in its assignments, for callers that read the fault
\* without the lock: fault.Status = FaultStatusAcknowledged.
AcknowledgeFault_SetStatus(p) ==
    /\ pc[p] = "AcknowledgeFault"
    /\ faults' = [faults EXCEPT ![local[p].arg.faultID].Status = FaultStatusAcknowledged]
    /\ pc' = [pc EXCEPT ![p] = "AcknowledgeFault_by"]
    /\ MutatorActs
    /\ UNCHANGED <<acs, singleton, devices, cache, mutexes, now, local, response>>

\* fault.AcknowledgedBy = acknowledgedBy and fault.AcknowledgedAt = &now.
AcknowledgeFault_SetActor(p) ==
    /\ pc[p] = "AcknowledgeFault_by"
    /\ faults' = [faults EXCEPT
                    ![local[p].arg.faultID].AcknowledgedBy = local[p].arg.by,
                    ![local[p].arg.faultID].AcknowledgedAt = now]
    /\ pc' = [pc EXCEPT ![p] = "faults_invalidate"]
    /\ MutatorActs
    /\ UNCHANGED <<acs, singleton, devices, cache, mutexes, now, local, response>>

\* A mutant of AcknowledgeFault that invalidates the cache before it returns
\* ErrFaultNotFound.
AcknowledgeFault_Missing_Invalidates(p, faultID) ==
    /\ pc[p] = "idle"
    /\ CanLock(faultsMutex)
    /\ faultID \notin DOMAIN faults
    /\ response' = [kind |-> "AcknowledgeFault", faultID |-> faultID,
                    err |-> ErrFaultNotFound]
    /\ statsCacheTime' = ZeroTime
    /\ lastStats' = NoStats
    /\ computed' = [computed EXCEPT !.invalidated = TRUE]
    /\ done' = [done EXCEPT ![p] = TRUE]
    /\ UNCHANGED <<acs, singleton, registry, statsCache, mutexes, now, pc, local, quiet>>

\* AcknowledgeFault on an identifier that is not stored: ErrFaultNotFound.
AcknowledgeFault_Missing(p, faultID) ==
    /\ pc[p] = "idle"
    /\ CanLock(faultsMutex)
    /\ faultID \notin DOMAIN faults
    /\ response' = [kind |-> "AcknowledgeFault", faultID |-> faultID,
                    err |-> ErrFaultNotFound]
    /\ Returns(p)
    /\ UNCHANGED <<acs, singleton, registry, cache, mutexes, now, pc, local, quiet, lastStats, computed>>

\* ResolveFault on a fault that exists, called where goroutine p is at `from`:
\* faultsMutex.Lock() and the lookup.
ResolveFault_From(p, from, faultID, resolvedBy) ==
    /\ pc[p] = from
    /\ CanLock(faultsMutex)
    /\ faultID \in DOMAIN faults
    /\ faultsMutex' = Lock(faultsMutex, p)
    /\ pc' = [pc EXCEPT ![p] = "ResolveFault"]
    /\ local' = [local EXCEPT ![p] =
                   [op |-> "ResolveFault", arg |-> [faultID |-> faultID, by |-> resolvedBy],
                    m |-> faults, via |-> from]]
    /\ response' = NoResponse
    /\ MutatorBegins
    /\ UNCHANGED <<acs, singleton, registry, cache, devicesMutex, statsCacheMutex, now>>

\* ResolveFault called by a goroutine that is in no other call.
ResolveFault_Lock(p, faultID, resolvedBy) == ResolveFault_From(p, "idle", faultID, resolvedBy)

\* A mutant of ResolveFault that clears the acknowledgement of the fault.
ResolveFault_Write_ClearsAck(p) ==
    LET id == local[p].arg.faultID
    IN  /\ pc[p] = "ResolveFault"
        /\ faults' = [faults EXCEPT
                        ![id].Status = FaultStatusResolved,
                        ![id].ResolvedBy = local[p].arg.by,
                        ![id].ResolvedAt = now,
                        ![id].AcknowledgedBy = "",
                        ![id].AcknowledgedAt = NilTime]
        /\ pc' = [pc EXCEPT ![p] = "faults_invalidate"]
        /\ lastStats' = NoStats
        /\ UNCHANGED <<acs, singleton, devices, cache, mutexes, now, local, response, done, quiet, computed>>

\* ResolveFault: the three field assignments through the stored pointer.
ResolveFault_Write(p) ==
    /\ pc[p] = "ResolveFault"
    /\ faults' = [faults EXCEPT
                    ![local[p].arg.faultID].Status = FaultStatusResolved,
                    ![local[p].arg.faultID].ResolvedBy = local[p].arg.by,
                    ![local[p].arg.faultID].ResolvedAt = now]
    /\ pc' = [pc EXCEPT ![p] = "faults_invalidate"]
    /\ MutatorActs
    /\ UNCHANGED <<acs, singleton, devices, cache, mutexes, now, local, response>>

\* ResolveFault on an identifier that is not stored: ErrFaultNotFound.
ResolveFault_Missing(p, faultID) ==
    /\ pc[p] = "idle"
    /\ CanLock(faultsMutex)
    /\ faultID \notin DOMAIN faults
    /\ response' = [kind |-> "ResolveFault", faultID |-> faultID,
                    err |-> ErrFaultNotFound]
    /\ Returns(p)
    /\ UNCHANGED <<acs, singleton, registry, cache, mutexes, now, pc, local, quiet, lastStats, computed>>

\* A mutant of the fault mutators that return without invalidating the cache.
Faults_Invalidate_Skipped(p) ==
    /\ pc[p] = "faults_invalidate"
    /\ pc' = [pc EXCEPT ![p] = "faults_unlock"]
    /\ UNCHANGED <<acs, singleton, registry, cache, mutexes, now, local, response, history>>

\* The call of invalidateStatsCache that ends every fault mutator.
Faults_Invalidate(p) == invalidateStatsCache(p, "faults_invalidate", "faults_unlock")

\* The deferred faultsMutex.Unlock() of a fault mutator, and its return.
Faults_Unlock(p) ==
    /\ pc[p] = "faults_unlock"
    /\ faultsMutex' = Unlock(faultsMutex)
    /\ pc' = [pc EXCEPT ![p] = "idle"]
    /\ response' = [kind |-> local[p].op, arg |-> local[p].arg, via |-> local[p].via]
    /\ local' = [local EXCEPT ![p] = NoLocal]
    /\ Returns(p)
    /\ UNCHANGED <<acs, singleton, registry, cache, devicesMutex, statsCacheMutex, now, quiet,
                   lastStats, computed>>

\* GetFault: the lookup under faultsMutex.RLock().
GetFault(p, faultID) ==
    /\ pc[p] = "idle"
    /\ CanRLock(faultsMutex)
    /\ response' = [kind |-> "GetFault", faultID |-> faultID,
                    found |-> Lookup(faults, faultID),
                    after |-> IF response.kind = "AddFault" THEN response
                              ELSE NoResponse]
    /\ Returns(p)
    /\ UNCHANGED <<acs, singleton, registry, cache, mutexes, now, pc, local, quiet, lastStats, computed>>

\* A mutant of GetActiveFaults that leaves out the acknowledged faults.
GetActiveFaults_OnlyActive(p) ==
    /\ pc[p] = "idle"
    /\ CanRLock(faultsMutex)
    /\ response' = [kind |-> "GetActiveFaults",
                    faults |-> { faults[k] : k \in
                                   { x \in DOMAIN faults :
                                       faults[x].Status = FaultStatusActive } }]
    /\ Returns(p)
    /\ UNCHANGED <<acs, singleton, registry, cache, mutexes, now, pc, local, quiet,
                   lastStats, computed>>

\* GetActiveFaults: under faultsMutex.RLock(), the stored faults whose status
\* is active or acknowledged.
GetActiveFaults(p) ==
    /\ pc[p] = "idle"
    /\ CanRLock(faultsMutex)
    /\ response' = [kind |-> "GetActiveFaults",
                    faults |-> { faults[k] : k \in
                                   { x \in DOMAIN faults :
                                       \/ faults[x].Status = FaultStatusActive
                                       \/ faults[x].Status = FaultStatusAcknowledged } }]
    /\ Returns(p)
    /\ UNCHANGED <<acs, singleton, registry, cache, mutexes, now, pc, local, quiet,
                   lastStats, computed>>

\* The handler GetFault on a stored fault: appContext.GetFault returns the
\* pointer, under faultsMutex.RLock().
SBI_GetFault_Lookup(p, faultID) ==
    /\ pc[p] = "idle"
    /\ CanRLock(faultsMutex)
    /\ faultID \in DOMAIN faults
    /\ pc' = [pc EXCEPT ![p] = "SBI_GetFault"]
    /\ local' = [local EXCEPT ![p] = [op |-> "SBI_GetFault", arg |-> faultID]]
    /\ response' = NoResponse
    /\ UNCHANGED <<acs, singleton, registry, cache, mutexes, now, history>>

\* c.JSON writes the fault field after field, with no lock: Status.
SBI_GetFault_ReadStatus(p) ==
    /\ pc[p] = "SBI_GetFault"
    /\ local' = [local EXCEPT ![p] =
                   [op |-> "SBI_GetFault", arg |-> local[p].arg,
                    Status |-> faults[local[p].arg].Status]]
    /\ pc' = [pc EXCEPT ![p] = "SBI_GetFault_by"]
    /\ UNCHANGED <<acs, singleton, registry, cache, mutexes, now, response, history>>

\* c.JSON: AcknowledgedBy, and the response is sent.
SBI_GetFault_ReadActor(p) ==
    /\ pc[p] = "SBI_GetFault_by"
    /\ response' = [kind |-> "SBI_GetFault", faultID |-> local[p].arg,
                    Status |-> local[p].Status,
                    AcknowledgedBy |-> faults[local[p].arg].AcknowledgedBy]
    /\ pc' = [pc EXCEPT ![p] = "idle"]
    /\ local' = [local EXCEPT ![p] = NoLocal]
    /\ Returns(p)
    /\ UNCHANGED <<acs, singleton, registry, cache, mutexes, now, quiet, lastStats, computed>>

\* --------------------------------------------------------- faults of the ACS
\* determineFaultSeverity, on the bare codes of the ACS (strings.Contains is
\* equality on them).
determineFaultSeverity(code) ==
    CASE code \in {"9001", "9008", "9009"} -> "warning"
      [] code \in {"9002", "9004", "9010", "9011"} -> "major"
      [] code \in {"9003", "9005", "9006", "9007"} -> SeverityMinor
      [] code = "9012" -> SeverityCritical
      [] OTHER -> "info"

\* convertGenieFault: the fields the registry reads, and the status active.
convertGenieFault(genieFault) ==
    Fault(getString(genieFault, "_id"), getString(genieFault, "device"),
          determineFaultSeverity(getString(genieFault, "code")), FaultStatusActive)

\* Go's int is 64 bits wide; the model keeps its wrap-around arithmetic at
\* the width IntBits, which the integers of the model checker can hold.
IntBits == 16
MaxInt == 2^(IntBits - 1) - 1
Wrap(x) ==
    LET m == x % 2^IntBits
    IN  IF m > MaxInt THEN m - 2^IntBits ELSE m

\* strconv.Atoi: an optional sign and decimal digits; an error for anything
\* else and for a number that does not fit an int.
DigitChars == <<"0", "1", "2", "3", "4", "5", "6", "7", "8", "9">>
DigitValue(c) == (CHOOSE i \in 1..10 : DigitChars[i] = c) - 1
RECURSIVE DigitsValue(_, _)
DigitsValue(digits, acc) ==
    IF digits = <<>> THEN acc
    ELSE DigitsValue(Tail(digits), acc * 10 + DigitValue(Head(digits)))
Atoi(text) ==
    LET signed == text # <<>> /\ Head(text) \in {"+", "-"}
        digits == IF signed THEN Tail(text) ELSE text
        isNumber == /\ digits # <<>>
                    /\ \A i \in 1..Len(digits) : \E j \in 1..10 : DigitChars[j] = digits[i]
        value == IF signed /\ Head(text) = "-" THEN 0 - DigitsValue(digits, 0)
                 ELSE DigitsValue(digits, 0)
    IN  IF isNumber /\ value <= MaxInt /\ value >= 0 - MaxInt - 1
        THEN [err |-> FALSE, val |-> value]
        ELSE [err |-> TRUE, val |-> 0]

\* producer.GetFaults, the filters of the query over the fetched faults (the
\* channel filter reads a field the model leaves out).
FilterFaults(fetched, query) ==
    LET Keep(fault) ==
            /\ query.deviceId = "" \/ fault.DeviceID = query.deviceId
            /\ query.status = "" \/ fault.Status = query.status
            /\ query.severity = "" \/ fault.Severity = query.severity
    IN  SelectSeq(fetched, Keep)

\* producer.GetFaults, the pagination: page and pageSize from their texts or
\* 1 and 20, start and end clamped to the length from above, and the slice
\* expression, which panics when its bounds are not 0 <= start <= end <= len.
Paginate(filteredFaults, query) ==
    LET p == Atoi(query.page)
        ps == Atoi(query.pageSize)
        page == IF query.page # <<>> /\ ~p.err /\ p.val > 0 THEN p.val ELSE 1
        pageSize == IF query.pageSize # <<>> /\ ~ps.err /\ ps.val > 0 /\ ps.val <= 100
                    THEN ps.val ELSE 20
        start0 == Wrap((page - 1) * pageSize)
        end0 == Wrap(start0 + pageSize)
        n == Len(filteredFaults)
        start == IF start0 > n THEN n ELSE start0
        end == IF end0 > n THEN n ELSE end0
    IN  IF start < 0 \/ end < start \/ end > n
        THEN [kind |-> "SBI_GetFaults", code |-> "panic", start |-> start, end |-> end]
        ELSE [kind |-> "SBI_GetFaults", code |-> "OK",
              faults |-> SubSeq(filteredFaults, start + 1, end),
              total |-> n, page |-> page, pageSize |-> pageSize]

\* The slice a slice-returning call hands back for a set of stored pointers:
\* any order, since the map iteration order is open.
Orderings(set) ==
    { l \in [1..Cardinality(set) -> set] : \A i, j \in DOMAIN l : l[i] = l[j] => i = j }

\* The locals of producer.GetFaults once the faults are fetched.
SBI_GetFaults_Fetched(p, fetched, query) ==
    /\ pc' = [pc EXCEPT ![p] = "SBI_GetFaults"]
    /\ local' = [local EXCEPT ![p] =
                   [op |-> "SBI_GetFaults", faults |-> fetched, next |-> 1,
                    query |-> query]]
    /\ response' = NoResponse

\* producer.GetFaults: genieService.GetFaults("") answers with the converted
\* faults of the ACS, in the order of the ACS.
SBI_GetFaults_Fetch(p, genieFaults, query) ==
    /\ pc[p] = "idle"
    /\ SBI_GetFaults_Fetched(p, [i \in DOMAIN genieFaults |-> convertGenieFault(genieFaults[i])],
                             query)
    /\ UNCHANGED <<acs, singleton, registry, cache, mutexes, now, history>>

\* producer.GetFaults: the ACS fails, and the handler falls back to
\* appContext.GetActiveFaults(), the stored pointers.
SBI_GetFaults_ACSFails(p, query) ==
    /\ pc[p] = "idle"
    /\ CanRLock(faultsMutex)
    /\ \E fetched \in Orderings({ faults[k] : k \in { x \in DOMAIN faults :
                                                      IsActiveFault(faults[x]) } }) :
          SBI_GetFaults_Fetched(p, fetched, query)
    /\ UNCHANGED <<acs, singleton, registry, cache, mutexes, now, history>>

\* producer.GetFaults: one iteration of the loop, appContext.AddFault(fault)
\* from its Lock to its Unlock (the goroutine is the only one).
SBI_GetFaults_AddFault(p) ==
    /\ pc[p] = "SBI_GetFaults"
    /\ local[p].next <= Len(local[p].faults)
    /\ CanLock(faultsMutex)
    /\ CanLock(statsCacheMutex)
    /\ faults' = MapSet(faults, local[p].faults[local[p].next].ID,
                        local[p].faults[local[p].next])
    /\ local' = [local EXCEPT ![p].next = @ + 1]
    /\ statsCacheTime' = ZeroTime
    /\ quiet' = [q \in Procs |-> FALSE]
    /\ lastStats' = NoStats
    /\ computed' = [computed EXCEPT !.invalidated = TRUE]
    /\ UNCHANGED <<acs, singleton, devices, statsCache, mutexes, now, pc, response, done>>

\* producer.GetFaults: the loop has ended; the faults are filtered, the page
\* is cut out and answered, unless the slice expression panics.
SBI_GetFaults_Respond(p) ==
    /\ pc[p] = "SBI_GetFaults"
    /\ local[p].next > Len(local[p].faults)
    /\ response' = [request |-> [faults |-> local[p].faults, query |-> local[p].query]]
                       @@ Paginate(FilterFaults(local[p].faults, local[p].query),
                                   local[p].query)
    /\ pc' = [pc EXCEPT ![p] = "idle"]
    /\ local' = [local EXCEPT ![p] = NoLocal]
    /\ Returns(p)
    /\ UNCHANGED <<acs, singleton, registry, cache, mutexes, now, quiet, lastStats, computed>>

\* ------------------------------------------------------ web fault handlers
\* handlers.AcknowledgeFault: the store's AcknowledgeFault with the actor of
\* the request body, whatever the status of the fault.
Web_AcknowledgeFault(p, faultID, acknowledgedBy) ==
    \/ AcknowledgeFault_Lock(p, faultID, acknowledgedBy)
    \/ AcknowledgeFault_Missing(p, faultID)

\* handlers.ResolveFault: the store's ResolveFault with the actor of the
\* request body, whatever the status of the fault.
Web_ResolveFault(p, faultID, resolvedBy) ==
    \/ ResolveFault_Lock(p, faultID, resolvedBy)
    \/ ResolveFault_Missing(p, faultID)

\* ------------------------------------------------------ SBI fault handlers
\* The answer of an SBI handler that rejects a request.
Rejects(p, handler, faultID, code) ==
    /\ response' = [kind |-> handler, faultID |-> faultID, code |-> code]
    /\ pc' = [pc EXCEPT ![p] = "idle"]
    /\ local' = [local EXCEPT ![p] = NoLocal]
    /\ Returns(p)

\* An SBI handler goes on after its checks, towards its call of the store.
Proceeds(p, handler, arg) ==
    /\ response' = NoResponse
    /\ pc' = [pc EXCEPT ![p] = handler]
    /\ local' = [local EXCEPT ![p] = [op |-> handler, arg |-> arg]]
    /\ UNCHANGED done

\* producer.AcknowledgeFault: GetFault, then the checks of the status read.
SBI_AcknowledgeFault_Check(p, faultID, acknowledgedBy) ==
    LET found == Lookup(faults, faultID)
    IN  /\ pc[p] = "idle"
        /\ CanRLock(faultsMutex)
        /\ IF ~found.exists
           THEN Rejects(p, "SBI_AcknowledgeFault", faultID, "NotFound")
           ELSE IF found.value.Status = FaultStatusAcknowledged
                   \/ found.value.Status = FaultStatusResolved
           THEN Rejects(p, "SBI_AcknowledgeFault", faultID, "BadRequest")
           ELSE Proceeds(p, "SBI_AcknowledgeFault",
                         [faultID |-> faultID, by |-> acknowledgedBy])
        /\ UNCHANGED <<acs, singleton, registry, cache, mutexes, now, quiet, lastStats, computed>>

\* producer.AcknowledgeFault: the call of the store's AcknowledgeFault (its
\* error answer needs a fault removed meanwhile, and no call removes one).
SBI_AcknowledgeFault_Call(p) ==
    /\ pc[p] = "SBI_AcknowledgeFault"
    /\ AcknowledgeFault_From(p, "SBI_AcknowledgeFault",
                             local[p].arg.faultID, local[p].arg.by)

\* producer.ResolveFault: GetFault, then the check of the status read.
SBI_ResolveFault_Check(p, faultID, resolvedBy) ==
    LET found == Lookup(faults, faultID)
    IN  /\ pc[p] = "idle"
        /\ CanRLock(faultsMutex)
        /\ IF ~found.exists
           THEN Rejects(p, "SBI_ResolveFault", faultID, "NotFound")
           ELSE IF found.value.Status = FaultStatusResolved
           THEN Rejects(p, "SBI_ResolveFault", faultID, "BadRequest")
           ELSE Proceeds(p, "SBI_ResolveFault", [faultID |-> faultID, by |-> resolvedBy])
        /\ UNCHANGED <<acs, singleton, registry, cache, mutexes, now, quiet, lastStats, computed>>

\* producer.ResolveFault: the call of the store's ResolveFault.
SBI_ResolveFault_Call(p) ==
    /\ pc[p] = "SBI_ResolveFault"
    /\ ResolveFault_From(p, "SBI_ResolveFault", local[p].arg.faultID, local[p].arg.by)

\* producer.ResolveFault: the store's ResolveFault from its Lock to its Unlock
\* (the goroutine is the only one, so the fault is still stored and no error
\* is returned); the handler goes on to the ACS.
SBI_ResolveFault_Store(p) ==
    /\ pc[p] = "SBI_ResolveFault"
    /\ CanLock(faultsMutex)
    /\ CanLock(statsCacheMutex)
    /\ local[p].arg.faultID \in DOMAIN faults
    /\ faults' = [faults EXCEPT
                    ![local[p].arg.faultID].Status = FaultStatusResolved,
                    ![local[p].arg.faultID].ResolvedBy = local[p].arg.by,
                    ![local[p].arg.faultID].ResolvedAt = now]
    /\ statsCacheTime' = ZeroTime
    /\ computed' = [computed EXCEPT !.invalidated = TRUE]
    /\ lastStats' = NoStats
    /\ quiet' = [q \in Procs |-> FALSE]
    /\ pc' = [pc EXCEPT ![p] = "SBI_ResolveFault_ACS"]
    /\ UNCHANGED <<acs, singleton, devices, statsCache, mutexes, now, local, response, done>>

\* What producer.ResolveFault answers after the ACS call: the stored fault,
\* read again with GetFault, and success.
SBI_ResolveFault_Answer(p, acsOutcome) ==
    /\ pc[p] = "SBI_ResolveFault_ACS"
    /\ CanRLock(faultsMutex)
    /\ response' = [kind |-> "SBI_ResolveFault", faultID |-> local[p].arg.faultID,
                    code |-> "OK", acs |-> acsOutcome,
                    fault |-> Lookup(faults, local[p].arg.faultID)]
    /\ pc' = [pc EXCEPT ![p] = "idle"]
    /\ local' = [local EXCEPT ![p] = NoLocal]
    /\ Returns(p)

\* producer.ResolveFault: genieService.DeleteFault succeeds.
SBI_ResolveFault_ACSDeletes(p) ==
    /\ SBI_ResolveFault_Answer(p, "deleted")
    /\ UNCHANGED <<acs, singleton, registry, cache, mutexes, now, quiet, lastStats, computed>>

\* A mutant of producer.ResolveFault that takes the resolution back when the
\* ACS call fails.
SBI_ResolveFault_ACSFails_Reverts(p) ==
    /\ pc[p] = "SBI_ResolveFault_ACS"
    /\ faults' = [faults EXCEPT
                    ![local[p].arg.faultID].Status = FaultStatusActive,
                    ![local[p].arg.faultID].ResolvedBy = "",
                    ![local[p].arg.faultID].ResolvedAt = NilTime]
    /\ Rejects(p, "SBI_ResolveFault", local[p].arg.faultID, "InternalServerError")
    /\ UNCHANGED <<acs, singleton, devices, cache, mutexes, now, quiet, lastStats, computed>>

\* producer.ResolveFault: genieService.DeleteFault fails; a warning is logged
\* and the handler answers as if it had succeeded.
SBI_ResolveFault_ACSFails(p) ==
    /\ SBI_ResolveFault_Answer(p, "failed")
    /\ UNCHANGED <<acs, singleton, registry, cache, mutexes, now, quiet, lastStats, computed>>

\* producer.DeleteFault: GetFault, then the check of status and force.
SBI_DeleteFault_Check(p, faultID, force) ==
    LET found == Lookup(faults, faultID)
    IN  /\ pc[p] = "idle"
        /\ CanRLock(faultsMutex)
        /\ IF ~found.exists
           THEN Rejects(p, "SBI_DeleteFault", faultID, "NotFound")
           ELSE IF found.value.Status = FaultStatusActive /\ ~force
           THEN Rejects(p, "SBI_DeleteFault", faultID, "BadRequest")
           ELSE Proceeds(p, "SBI_DeleteFault", [faultID |-> faultID])
        /\ UNCHANGED <<acs, singleton, registry, cache, mutexes, now, quiet, lastStats, computed>>

\* A mutant of producer.DeleteFault that marks the fault expired although the
\* delete call to the ACS has failed.
SBI_DeleteFault_ACSFails_Marks(p) ==
    /\ pc[p] = "SBI_DeleteFault"
    /\ faults' = [faults EXCEPT ![local[p].arg.faultID].Status = FaultStatusExpired,
                                ![local[p].arg.faultID].Expiry = now]
    /\ Rejects(p, "SBI_DeleteFault", local[p].arg.faultID, "InternalServerError")
    /\ UNCHANGED <<acs, singleton, devices, cache, mutexes, now, quiet, lastStats, computed>>

\* producer.DeleteFault: the delete call to the ACS fails.
SBI_DeleteFault_ACSFails(p) ==
    /\ pc[p] = "SBI_DeleteFault"
    /\ Rejects(p, "SBI_DeleteFault", local[p].arg.faultID, "InternalServerError")
    /\ UNCHANGED <<acs, singleton, registry, cache, mutexes, now, quiet, lastStats, computed>>

\* A mutant of producer.DeleteFault that takes the fault out of the store.
SBI_DeleteFault_Mark_Removes(p) ==
    /\ pc[p] = "SBI_DeleteFault"
    /\ faults' = MapDelete(faults, local[p].arg.faultID)
    /\ pc' = [pc EXCEPT ![p] = "idle"]
    /\ quiet' = [q \in Procs |-> FALSE]
    /\ lastStats' = NoStats
    /\ UNCHANGED <<acs, singleton, devices, cache, mutexes, now, local, response, done, computed>>

\* producer.DeleteFault: the ACS has deleted; status and expiry are written
\* through the pointer GetFault returned, with no lock held.
SBI_DeleteFault_Mark(p) ==
    /\ pc[p] = "SBI_DeleteFault"
    /\ faults' = [faults EXCEPT ![local[p].arg.faultID].Status = FaultStatusExpired,
                                ![local[p].arg.faultID].Expiry = now]
    /\ pc' = [pc EXCEPT ![p] = "SBI_DeleteFault_AddFault"]
    /\ MutatorBegins
    /\ UNCHANGED <<acs, singleton, devices, cache, mutexes, now, local, response>>

\* producer.DeleteFault: the call of the store's AddFault with that pointer.
SBI_DeleteFault_AddFault(p) ==
    /\ pc[p] = "SBI_DeleteFault_AddFault"
    /\ AddFault_From(p, "SBI_DeleteFault_AddFault", faults[local[p].arg.faultID])

\* ---------------------------------------------------------- GetDeviceStats
\* A mutant of the freshness test that never trusts the cache.
IsFresh_Never == FALSE

\* A mutant of the freshness test that trusts a cache exactly a minute old.
IsFresh_Inclusive == Since(statsCacheTime) <= Minute

\* The freshness test of GetDeviceStats (line 239).
IsFresh == Since(statsCacheTime) < Minute

\* What a GetDeviceStats that returns c.statsCache leaves for the next call.
StatsReturned ==
    IF statsCacheTime = ZeroTime THEN NoStats
    ELSE [id |-> statsCache.id, calledAt |-> now, computedAt |-> statsCacheTime]

\* GetDeviceStats, cache fresh: the cached snapshot is returned under RLock.
GetDeviceStats_Fresh(p) ==
    /\ pc[p] = "idle"
    /\ CanRLock(statsCacheMutex)
    /\ IsFresh
    /\ response' = [kind |-> "GetDeviceStats", snap |-> statsCache,
                    quiet |-> \A q \in Procs : ~InMutator(q),
                    prev |-> lastStats, calledAt |-> now]
    /\ lastStats' = StatsReturned
    /\ Returns(p)
    /\ UNCHANGED <<acs, singleton, registry, cache, mutexes, now, pc, local, quiet, computed>>

\* GetDeviceStats, cache stale: RUnlock, then the call of updateStatsCache.
GetDeviceStats_Stale(p) ==
    /\ pc[p] = "idle"
    /\ CanRLock(statsCacheMutex)
    /\ ~IsFresh
    /\ pc' = [pc EXCEPT ![p] = "updateStatsCache"]
    /\ local' = [local EXCEPT ![p] =
                   [op |-> "GetDeviceStats", prev |-> lastStats, calledAt |-> now]]
    /\ quiet' = [quiet EXCEPT ![p] = \A q \in Procs : ~InMutator(q)]
    /\ response' = NoResponse
    /\ UNCHANGED <<acs, singleton, registry, cache, mutexes, now, done, lastStats, computed>>

\* updateStatsCache: statsCacheMutex.Lock().
updateStatsCache_Lock(p) ==
    /\ pc[p] = "updateStatsCache"
    /\ CanLock(statsCacheMutex)
    /\ statsCacheMutex' = Lock(statsCacheMutex, p)
    /\ pc' = [pc EXCEPT ![p] = "updateStatsCache_devices"]
    /\ UNCHANGED <<acs, singleton, registry, cache, devicesMutex, faultsMutex, now, local, response,
                   history>>

\* updateStatsCache: devicesMutex.RLock().
updateStatsCache_RLockDevices(p) ==
    /\ pc[p] = "updateStatsCache_devices"
    /\ CanRLock(devicesMutex)
    /\ devicesMutex' = RLock(devicesMutex, p)
    /\ pc' = [pc EXCEPT ![p] = "updateStatsCache_faults"]
    /\ UNCHANGED <<acs, singleton, registry, cache, faultsMutex, statsCacheMutex, now, local, response,
                   history>>

\* updateStatsCache: faultsMutex.RLock(), the scan, the store of the new
\* snapshot and of the time, and the three deferred unlocks.
updateStatsCache_Store(p) ==
    /\ pc[p] = "updateStatsCache_faults"
    /\ CanRLock(faultsMutex)
    /\ statsCache' = [id |-> NewSnapID, stats |-> ComputeStats(devices, faults)]
    /\ statsCacheTime' = now
    /\ devicesMutex' = RUnlock(devicesMutex, p)
    /\ statsCacheMutex' = Unlock(statsCacheMutex)
    /\ pc' = [pc EXCEPT ![p] = "GetDeviceStats_return"]
    /\ lastStats' = NoStats
    /\ computed' = [at |-> now, invalidated |-> FALSE]
    /\ UNCHANGED <<acs, singleton, registry, faultsMutex, now, local, response, done, quiet>>

\* GetDeviceStats after the recompute: c.statsCache is read under RLock.
GetDeviceStats_Return(p) ==
    /\ pc[p] = "GetDeviceStats_return"
    /\ CanRLock(statsCacheMutex)
    /\ response' = [kind |-> "GetDeviceStats", snap |-> statsCache, quiet |-> quiet[p],
                    prev |-> local[p].prev, calledAt |-> local[p].calledAt]
    /\ pc' = [pc EXCEPT ![p] = "idle"]
    /\ local' = [local EXCEPT ![p] = NoLocal]
    /\ lastStats' = StatsReturned
    /\ quiet' = [quiet EXCEPT ![p] = FALSE]
    /\ Returns(p)
    /\ UNCHANGED <<acs, singleton, registry, cache, mutexes, now, computed>>

\* ---------------------------------------------------------- GenieACS status
\* UpdateGenieACSStatus: statusMutex.Lock().
UpdateGenieACSStatus_Lock(p, status) ==
    /\ pc[p] = "idle"
    /\ CanLock(statusMutex)
    /\ statusMutex' = Lock(statusMutex, p)
    /\ pc' = [pc EXCEPT ![p] = "UpdateGenieACSStatus"]
    /\ local' = [local EXCEPT ![p] =
                   [op |-> "UpdateGenieACSStatus", arg |-> status, at |-> NilTime]]
    /\ response' = NoResponse
    /\ UNCHANGED <<genieACSStatus, singleton, registry, cache, mutexes, now, history>>

\* c.genieACSStatus = status, the word of the three flags.
UpdateGenieACSStatus_CopyFlags(p) ==
    /\ pc[p] = "UpdateGenieACSStatus"
    /\ genieACSStatus' = [genieACSStatus EXCEPT
                             !.CWMPConnected = local[p].arg.CWMPConnected,
                             !.NBIConnected = local[p].arg.NBIConnected,
                             !.FSConnected = local[p].arg.FSConnected]
    /\ pc' = [pc EXCEPT ![p] = "status_rest"]
    /\ UNCHANGED <<statusMutex, singleton, registry, cache, mutexes, now, local,
                   response, history>>

\* c.genieACSStatus = status, the words of LastCheck and LastError.
UpdateGenieACSStatus_CopyRest(p) ==
    /\ pc[p] = "status_rest"
    /\ genieACSStatus' = [genieACSStatus EXCEPT
                             !.LastCheck = local[p].arg.LastCheck,
                             !.LastError = local[p].arg.LastError]
    /\ pc' = [pc EXCEPT ![p] = "status_lastcheck"]
    /\ UNCHANGED <<statusMutex, singleton, registry, cache, mutexes, now, local,
                   response, history>>

\* A mutant of the last assignment that keeps the caller's LastCheck.
UpdateGenieACSStatus_LastCheck_Keeps(p) ==
    /\ pc[p] = "status_lastcheck"
    /\ local' = [local EXCEPT ![p].at = now]
    /\ pc' = [pc EXCEPT ![p] = "status_unlock"]
    /\ UNCHANGED <<acs, singleton, registry, cache, mutexes, now, response, history>>

\* c.genieACSStatus.LastCheck = time.Now()
UpdateGenieACSStatus_LastCheck(p) ==
    /\ pc[p] = "status_lastcheck"
    /\ genieACSStatus' = [genieACSStatus EXCEPT !.LastCheck = now]
    /\ local' = [local EXCEPT ![p].at = now]
    /\ pc' = [pc EXCEPT ![p] = "status_unlock"]
    /\ UNCHANGED <<statusMutex, singleton, registry, cache, mutexes, now, response,
                   history>>

\* The deferred statusMutex.Unlock() of UpdateGenieACSStatus, and its return.
UpdateGenieACSStatus_Unlock(p) ==
    /\ pc[p] = "status_unlock"
    /\ statusMutex' = Unlock(statusMutex)
    /\ pc' = [pc EXCEPT ![p] = "idle"]
    /\ response' = [kind |-> "UpdateGenieACSStatus", arg |-> local[p].arg,
                    at |-> local[p].at]
    /\ local' = [local EXCEPT ![p] = NoLocal]
    /\ Returns(p)
    /\ UNCHANGED <<genieACSStatus, singleton, registry, cache, mutexes, now, quiet,
                   lastStats, computed>>

\* GetGenieACSStatus: statusMutex.RLock().
GetGenieACSStatus_RLock(p) ==
    /\ pc[p] = "idle"
    /\ CanRLock(statusMutex)
    /\ statusMutex' = RLock(statusMutex, p)
    /\ pc' = [pc EXCEPT ![p] = "GetGenieACSStatus"]
    /\ local' = [local EXCEPT ![p] = [op |-> "GetGenieACSStatus"]]
    /\ response' = NoResponse
    /\ UNCHANGED <<genieACSStatus, singleton, registry, cache, mutexes, now, history>>

\* return c.genieACSStatus: the copy into the result.
GetGenieACSStatus_Copy(p) ==
    /\ pc[p] = "GetGenieACSStatus"
    /\ local' = [local EXCEPT ![p] = [op |-> "GetGenieACSStatus",
                                      status |-> genieACSStatus]]
    /\ pc' = [pc EXCEPT ![p] = "status_return"]
    /\ UNCHANGED <<acs, singleton, registry, cache, mutexes, now, response, history>>

\* The deferred statusMutex.RUnlock() of GetGenieACSStatus, and its return.
GetGenieACSStatus_Return(p) ==
    /\ pc[p] = "status_return"
    /\ statusMutex' = RUnlock(statusMutex, p)
    /\ pc' = [pc EXCEPT ![p] = "idle"]
    /\ response' = [kind |-> "GetGenieACSStatus", status |-> local[p].status]
    /\ local' = [local EXCEPT ![p] = NoLocal]
    /\ Returns(p)
    /\ UNCHANGED <<genieACSStatus, singleton, registry, cache, mutexes, now, quiet,
                   lastStats, computed>>

\* ------------------------------------------------------------------ clock
Tick(seconds) ==
    /\ now < MaxNow
    /\ now' = now + seconds
    /\ UNCHANGED <<acs, singleton, registry, cache, mutexes, pc, local, response, history>>

\* ----------------------------------------------------------- specifications
\* The steps of a call in progress, whatever the call.
Continue(p) ==
    \/ AddDevice_Write(p)
    \/ RemoveDevice_Write(p)
    \/ UpdateDeviceStatus_Write(p)
    \/ Devices_Invalidate(p)
    \/ Devices_Unlock(p)
    \/ AddFault_Write(p)
    \/ AcknowledgeFault_Write(p)
    \/ ResolveFault_Write(p)
    \/ Faults_Invalidate(p)
    \/ Faults_Unlock(p)
    \/ updateStatsCache_Lock(p)
    \/ updateStatsCache_RLockDevices(p)
    \/ updateStatsCache_Store(p)
    \/ GetDeviceStats_Return(p)

\* The calls a goroutine can start, with their arguments.
Call(p, devs, flts) ==
    LET devIDs == { d.ID : d \in devs }
        fltIDs == { f.ID : f \in flts }
    IN  \/ \E d \in devs : AddDevice_Lock(p, d)
        \/ \E id \in devIDs : RemoveDevice_Lock(p, id)
        \/ \E id \in devIDs, online \in BOOLEAN : UpdateDeviceStatus_Lock(p, id, online)
        \/ \E id \in devIDs : UpdateDeviceStatus_Missing(p, id)
        \/ \E f \in flts : AddFault_Lock(p, f)
        \/ \E id \in fltIDs, by \in Actors : AcknowledgeFault_Lock(p, id, by)
        \/ \E id \in fltIDs : AcknowledgeFault_Missing(p, id)
        \/ \E id \in fltIDs, by \in Actors : ResolveFault_Lock(p, id, by)
        \/ \E id \in fltIDs : ResolveFault_Missing(p, id)
        \/ GetDeviceStats_Fresh(p)
        \/ GetDeviceStats_Stale(p)

\* Goroutines calling the registry concurrently, within one freshness window
\* (the clock runs in SpecStats).
Next ==
    \/ \E p \in Procs : Call(p, ConcDevices, ConcFaults)
    \/ \E p \in Procs : Continue(p)

Spec == Init /\ [][Next]_vars

\* One goroutine calling the registry, one call after the other.
NextSeq ==
    \/ \E d \in SeqDevices : AddDevice_Lock(Main, d)
    \/ AddDevice_Write(Main)
    \/ \E id \in DeviceIDs : RemoveDevice_Lock(Main, id)
    \/ RemoveDevice_Write(Main)
    \/ \E id \in DeviceIDs, online \in BOOLEAN : UpdateDeviceStatus_Lock(Main, id, online)
    \/ UpdateDeviceStatus_Write(Main)
    \/ \E id \in DeviceIDs : UpdateDeviceStatus_Missing(Main, id)
    \/ Devices_Invalidate(Main)
    \/ Devices_Unlock(Main)
    \/ \E id \in DeviceIDs : GetDevice(Main, id)
    \/ GetAllDevices(Main)

SpecSeq == Init /\ [][NextSeq]_vars

\* One goroutine serving the fault requests of the web and SBI endpoints, one
\* request after the other, and reading the statistics.
NextFaults ==
    \/ \E f \in SeqFaults : AddFault_Lock(Main, f)
    \/ AddFault_Write(Main)
    \/ \E id \in SeqFaultIDs, by \in SeqActors : Web_AcknowledgeFault(Main, id, by)
    \/ AcknowledgeFault_Write(Main)
    \/ \E id \in SeqFaultIDs, by \in Actors : Web_ResolveFault(Main, id, by)
    \/ ResolveFault_Write(Main)
    \/ Faults_Invalidate(Main)
    \/ Faults_Unlock(Main)
    \/ \E id \in SeqFaultIDs, by \in Actors : SBI_AcknowledgeFault_Check(Main, id, by)
    \/ SBI_AcknowledgeFault_Call(Main)
    \/ \E id \in SeqFaultIDs, by \in Actors : SBI_ResolveFault_Check(Main, id, by)
    \/ SBI_ResolveFault_Call(Main)
    \/ \E id \in SeqFaultIDs, force \in BOOLEAN : SBI_DeleteFault_Check(Main, id, force)
    \/ SBI_DeleteFault_ACSFails(Main)
    \/ SBI_DeleteFault_Mark(Main)
    \/ SBI_DeleteFault_AddFault(Main)
    \/ \E id \in SeqFaultIDs : GetFault(Main, id)
    \/ GetActiveFaults(Main)
    \/ GetDeviceStats_Fresh(Main)
    \/ GetDeviceStats_Stale(Main)
    \/ updateStatsCache_Lock(Main)
    \/ updateStatsCache_RLockDevices(Main)
    \/ updateStatsCache_Store(Main)
    \/ GetDeviceStats_Return(Main)

SpecFaults == Init /\ [][NextFaults]_vars

\* One goroutine storing devices, listing them through filters and reading
\* the statistics.
NextFilter ==
    \/ \E d \in FilterDevices : AddDevice_Lock(Main, d)
    \/ AddDevice_Write(Main)
    \/ Devices_Invalidate(Main)
    \/ Devices_Unlock(Main)
    \/ \E f \in Filters : GetFilteredDevices(Main, f)
    \/ GetAllDevices(Main)
    \/ GetDeviceStats_Fresh(Main)
    \/ GetDeviceStats_Stale(Main)
    \/ updateStatsCache_Lock(Main)
    \/ updateStatsCache_RLockDevices(Main)
    \/ updateStatsCache_Store(Main)
    \/ GetDeviceStats_Return(Main)

SpecFilter == Init /\ [][NextFilter]_vars

\* The goroutines of a process: each calls GetContext first, then stores
\* and looks up devices through what it returned.
NextSingleton ==
    \/ \E p \in Procs : GetContext_Fast(p)
    \/ \E p \in Procs : GetContext_Slow(p)
    \/ \E p \in Procs : GetContext_Init(p)
    \/ \E p \in Procs : GetContext_Return(p)
    \/ \E p \in Procs : \E d \in ConcDevices : done[p] /\ AddDevice_Lock(p, d)
    \/ \E p \in Procs : AddDevice_Write(p)
    \/ \E p \in Procs : Devices_Invalidate(p)
    \/ \E p \in Procs : Devices_Unlock(p)
    \/ \E p \in Procs : \E id \in {1} : done[p] /\ GetDevice(p, id)

SpecSingleton == InitProcess /\ [][NextSingleton]_vars

\* One goroutine storing and removing devices and looking them up by serial
\* number.
NextSerial ==
    \/ \E d \in SerialDevices : AddDevice_Lock(Main, d)
    \/ AddDevice_Write(Main)
    \/ \E id \in DeviceIDs : RemoveDevice_Lock(Main, id)
    \/ RemoveDevice_Write(Main)
    \/ Devices_Invalidate(Main)
    \/ Devices_Unlock(Main)
    \/ \E serial \in Serials : GetDeviceBySerial(Main, serial)

SpecSerial == Init /\ [][NextSerial]_vars

\* One goroutine serving the fault listing, which brings the faults of the ACS
\* into the store, and the acknowledge, resolve and delete requests.
NextRefresh ==
    \/ \E l \in GenieFaultLists : SBI_GetFaults_Fetch(Main, l, NoQuery)
    \/ SBI_GetFaults_ACSFails(Main, NoQuery)
    \/ SBI_GetFaults_AddFault(Main)
    \/ SBI_GetFaults_Respond(Main)
    \/ \E id \in {"f1", "f2"}, by \in Actors : SBI_AcknowledgeFault_Check(Main, id, by)
    \/ SBI_AcknowledgeFault_Call(Main)
    \/ AcknowledgeFault_Write(Main)
    \/ \E id \in {"f1", "f2"}, by \in Actors : SBI_ResolveFault_Check(Main, id, by)
    \/ SBI_ResolveFault_Call(Main)
    \/ ResolveFault_Write(Main)
    \/ \E id \in {"f1", "f2"}, force \in BOOLEAN : SBI_DeleteFault_Check(Main, id, force)
    \/ SBI_DeleteFault_ACSFails(Main)
    \/ SBI_DeleteFault_Mark(Main)
    \/ SBI_DeleteFault_AddFault(Main)
    \/ AddFault_Write(Main)
    \/ Faults_Invalidate(Main)
    \/ Faults_Unlock(Main)

SpecRefresh == Init /\ [][NextRefresh]_vars

\* Acknowledge requests of the SBI served concurrently, on faults stored
\* before.
NextAcknowledge ==
    \/ \E f \in SeqFaults : f.ID \notin DOMAIN faults /\ AddFault_Lock(Main, f)
    \/ AddFault_Write(Main)
    \/ \E p \in Procs : \E id \in SeqFaultIDs, by \in SeqActors :
          SBI_AcknowledgeFault_Check(p, id, by)
    \/ \E p \in Procs : SBI_AcknowledgeFault_Call(p)
    \/ \E p \in Procs : AcknowledgeFault_Write(p)
    \/ \E p \in Procs : Faults_Invalidate(p)
    \/ \E p \in Procs : Faults_Unlock(p)

SpecAcknowledge == Init /\ [][NextAcknowledge]_vars

\* Tag requests served beside filtered listings, on a device stored before.
NextTags ==
    \/ \E d \in TagDevices : d.ID \notin DOMAIN devices /\ AddDevice_Lock(Main, d)
    \/ AddDevice_Write(Main)
    \/ Devices_Invalidate(Main)
    \/ Devices_Unlock(Main)
    \/ \E p \in Procs : \E req \in TagRequests : BulkUpdateTags_Bind(p, req)
    \/ \E p \in Procs : BulkUpdateTags_GetDevice(p)
    \/ \E p \in Procs : BulkUpdateTags_WriteTags(p)
    \/ \E p \in Procs : BulkUpdateTags_AddDevice(p)
    \/ \E p \in Procs : BulkUpdateTags_Respond(p)
    \/ \E p \in Procs : \E f \in TagFilters : GetFilteredDevices_RLock(p, f)
    \/ \E p \in Procs : GetFilteredDevices_Scan(p)

SpecTags == Init /\ [][NextTags]_vars

\* One goroutine fills the registry and reads the statistics; from then on it
\* removes identifiers that are not stored and reads the statistics again.
NextRemove ==
    \/ computed.at = NilTime /\ \E d \in SeqDevices : AddDevice_Lock(Main, d)
    \/ AddDevice_Write(Main)
    \/ \E id \in DeviceIDs : id \notin DOMAIN devices /\ RemoveDevice_Lock(Main, id)
    \/ RemoveDevice_Write(Main)
    \/ Devices_Invalidate(Main)
    \/ Devices_Unlock(Main)
    \/ GetDeviceStats_Fresh(Main)
    \/ GetDeviceStats_Stale(Main)
    \/ updateStatsCache_Lock(Main)
    \/ updateStatsCache_RLockDevices(Main)
    \/ updateStatsCache_Store(Main)
    \/ GetDeviceStats_Return(Main)

SpecRemove == Init /\ [][NextRemove]_vars

\* One goroutine serving the resolve requests of the SBI, with the outcome of
\* the ACS call, beside acknowledge requests.
NextResolve ==
    \/ \E f \in SeqFaults : AddFault_Lock(Main, f)
    \/ AddFault_Write(Main)
    \/ \E id \in SeqFaultIDs, by \in Actors : SBI_AcknowledgeFault_Check(Main, id, by)
    \/ SBI_AcknowledgeFault_Call(Main)
    \/ AcknowledgeFault_Write(Main)
    \/ Faults_Invalidate(Main)
    \/ Faults_Unlock(Main)
    \/ \E id \in SeqFaultIDs, by \in SeqActors : SBI_ResolveFault_Check(Main, id, by)
    \/ SBI_ResolveFault_Store(Main)
    \/ SBI_ResolveFault_ACSDeletes(Main)
    \/ SBI_ResolveFault_ACSFails(Main)

SpecResolve == Init /\ [][NextResolve]_vars

\* One goroutine serving the pages of the fault listing.
NextPage ==
    \/ \E l \in PageFaultLists, q \in PageQueries : SBI_GetFaults_Fetch(Main, l, q)
    \/ SBI_GetFaults_AddFault(Main)
    \/ SBI_GetFaults_Respond(Main)

SpecPage == Init /\ [][NextPage]_vars

\* One goroutine storing, removing and updating devices beside a fault and
\* the statistics.
NextDevices ==
    \/ \E d \in SeqDevices : AddDevice_Lock(Main, d)
    \/ AddDevice_Write(Main)
    \/ \E id \in DeviceIDs : RemoveDevice_Lock(Main, id)
    \/ RemoveDevice_Write(Main)
    \/ \E id \in DeviceIDs, online \in BOOLEAN : UpdateDeviceStatus_Lock(Main, id, online)
    \/ UpdateDeviceStatus_Write(Main)
    \/ \E id \in DeviceIDs : UpdateDeviceStatus_Missing(Main, id)
    \/ Devices_Invalidate(Main)
    \/ Devices_Unlock(Main)
    \/ \E f \in ConcFaults : AddFault_Lock(Main, f)
    \/ AddFault_Write(Main)
    \/ Faults_Invalidate(Main)
    \/ Faults_Unlock(Main)
    \/ GetDeviceStats_Fresh(Main)
    \/ GetDeviceStats_Stale(Main)
    \/ updateStatsCache_Lock(Main)
    \/ updateStatsCache_RLockDevices(Main)
    \/ updateStatsCache_Store(Main)
    \/ GetDeviceStats_Return(Main)

SpecDevices == Init /\ [][NextDevices]_vars

\* The overview page stores the devices of the ACS, one after the other.
NextPopulate ==
    \/ \E gd \in GenieDevices : Overview_AddDevice(Main, gd)
    \/ AddDevice_Write(Main)
    \/ Devices_Invalidate(Main)
    \/ Devices_Unlock(Main)
    \/ GetAllDevices(Main)
    \/ GetDeviceStats_Fresh(Main)
    \/ GetDeviceStats_Stale(Main)
    \/ updateStatsCache_Lock(Main)
    \/ updateStatsCache_RLockDevices(Main)
    \/ updateStatsCache_Store(Main)
    \/ GetDeviceStats_Return(Main)

SpecPopulate == Init /\ [][NextPopulate]_vars

\* Requests served concurrently: faults are stored once, acknowledged, and read
\* by the handler GetFault.
NextRequests ==
    \/ \E f \in SeqFaults : f.ID \notin DOMAIN faults /\ AddFault_Lock(Main, f)
    \/ AddFault_Write(Main)
    \/ \E p \in Procs : \E id \in SeqFaultIDs, by \in SeqActors : AcknowledgeFault_Lock(p, id, by)
    \/ \E p \in Procs : AcknowledgeFault_SetStatus(p)
    \/ \E p \in Procs : AcknowledgeFault_SetActor(p)
    \/ \E p \in Procs : Faults_Invalidate(p)
    \/ \E p \in Procs : Faults_Unlock(p)
    \/ \E p \in Procs : \E id \in SeqFaultIDs : SBI_GetFault_Lookup(p, id)
    \/ \E p \in Procs : SBI_GetFault_ReadStatus(p)
    \/ \E p \in Procs : SBI_GetFault_ReadActor(p)

SpecRequests == Init /\ [][NextRequests]_vars

\* The poller and the handlers: goroutines writing and reading the
\* connectivity status while the clock runs.
NextStatus ==
    \/ \E p \in Procs : \E status \in StatusInputs(now) : UpdateGenieACSStatus_Lock(p, status)
    \/ \E p \in Procs : UpdateGenieACSStatus_CopyFlags(p)
    \/ \E p \in Procs : UpdateGenieACSStatus_CopyRest(p)
    \/ \E p \in Procs : UpdateGenieACSStatus_LastCheck(p)
    \/ \E p \in Procs : UpdateGenieACSStatus_Unlock(p)
    \/ \E p \in Procs : GetGenieACSStatus_RLock(p)
    \/ \E p \in Procs : GetGenieACSStatus_Copy(p)
    \/ \E p \in Procs : GetGenieACSStatus_Return(p)
    \/ Tick(TickSeconds)

SpecStatus == Init /\ [][NextStatus]_vars

\* Every goroutine upserts one device of its own, concurrently; once all have
\* returned the devices are listed.
NextUpsert ==
    \/ \E p \in Procs : ~done[p] /\ \E d \in UpsertDevices(p) : AddDevice_Lock(p, d)
    \/ \E p \in Procs : AddDevice_Write(p)
    \/ \E p \in Procs : Devices_Invalidate(p)
    \/ \E p \in Procs : Devices_Unlock(p)
    \/ \E p \in Procs : (\A q \in Procs : done[q]) /\ GetAllDevices(p)

SpecUpsert == Init /\ [][NextUpsert]_vars

\* A registry is filled, then its statistics are computed and read.
NextAggregate ==
    \/ computed.at = NilTime /\ \E d \in AggDevices : AddDevice_Lock(Main, d)
    \/ computed.at = NilTime /\ \E f \in AggFaults : AddFault_Lock(Main, f)
    \/ AddDevice_Write(Main)
    \/ Devices_Invalidate(Main)
    \/ Devices_Unlock(Main)
    \/ AddFault_Write(Main)
    \/ Faults_Invalidate(Main)
    \/ Faults_Unlock(Main)
    \/ GetDeviceStats_Fresh(Main)
    \/ GetDeviceStats_Stale(Main)
    \/ updateStatsCache_Lock(Main)
    \/ updateStatsCache_RLockDevices(Main)
    \/ updateStatsCache_Store(Main)
    \/ GetDeviceStats_Return(Main)

SpecAggregate == Init /\ [][NextAggregate]_vars

\* Goroutines reading the statistics while devices are upserted and the
\* clock advances through the freshness window.
NextStats ==
    \/ \E p \in Procs, d \in ConcDevices : AddDevice_Lock(p, d)
    \/ \E p \in Procs : AddDevice_Write(p)
    \/ \E p \in Procs : Devices_Invalidate(p)
    \/ \E p \in Procs : Devices_Unlock(p)
    \/ \E p \in Procs : GetDeviceStats_Fresh(p)
    \/ \E p \in Procs : GetDeviceStats_Stale(p)
    \/ \E p \in Procs : updateStatsCache_Lock(p)
    \/ \E p \in Procs : updateStatsCache_RLockDevices(p)
    \/ \E p \in Procs : updateStatsCache_Store(p)
    \/ \E p \in Procs : GetDeviceStats_Return(p)
    \/ Tick(TickSeconds)

SpecStats == Init /\ [][NextStats]_vars

\* =================================================================== claims
\* The reference aggregate of a registry, by counting sets.
Bucket(name) == IF name = "" THEN "Unknown" ELSE name

RefStats(devs, flts) ==
    LET ids == DOMAIN devs
        active == { k \in DOMAIN flts :
                      flts[k].Status \in {FaultStatusActive, FaultStatusAcknowledged} }
    IN  [TotalDevices |-> Cardinality(ids),
         OnlineDevices |-> Cardinality({ k \in ids : devs[k].Online }),
         OfflineDevices |-> Cardinality({ k \in ids : ~devs[k].Online }),
         DevicesByVendor |->
             [b \in { Bucket(devs[k].Manufacturer) : k \in ids } |->
                 Cardinality({ k \in ids : Bucket(devs[k].Manufacturer) = b })],
         DevicesByModel |->
             [b \in { Bucket(devs[k].ModelName) : k \in ids } |->
                 Cardinality({ k \in ids : Bucket(devs[k].ModelName) = b })],
         ActiveFaults |-> Cardinality(active),
         CriticalFaults |->
             Cardinality({ k \in active : flts[k].Severity = SeverityCritical })]

\* Goroutine p holds the devices lock or the faults lock, in either mode.
HoldsRegistryLock(p) ==
    \/ devicesMutex.w = p \/ p \in devicesMutex.r
    \/ faultsMutex.w = p \/ p \in faultsMutex.r

\* The next step of goroutine p is an acquisition of the stats-cache lock.
RequestsStatsLock(p) ==
    pc[p] \in {"devices_invalidate", "faults_invalidate", "updateStatsCache",
               "GetDeviceStats_return"}

\* C1: a GetDeviceStats call during which no mutator was in progress -- so that
\* every mutation had returned before it began -- returns the counts of the
\* registry as it is, although the clock has not left the freshness window.
C1_StatsAfterMutation ==
    (response.kind = "GetDeviceStats" /\ response.quiet)
        => response.snap.stats = RefStats(devices, faults)

\* The mutations have returned, and the statistics read after them show them
\* within the freshness window of an earlier snapshot.
C1_Witness ==
    /\ response.kind = "GetDeviceStats" /\ response.quiet
    /\ response.snap.stats.TotalDevices = 1
    /\ response.snap.stats.OfflineDevices = 1
    /\ response.snap.stats.ActiveFaults = 1
    /\ devices[1].ConnectionStatus = "disconnected"
    /\ faults[1].Status = FaultStatusAcknowledged
    /\ Since(computed.at) < Minute

\* C2: no goroutine requests the stats-cache lock while it holds the devices
\* lock or the faults lock (locks are taken stats, then devices, then faults).
C2_LockOrder ==
    \A p \in Procs : RequestsStatsLock(p) => ~HoldsRegistryLock(p)

\* Goroutine p waits for a lock that goroutine q holds.
BlockedOn(p, q) ==
    /\ p # q
    /\ \/ /\ pc[p] \in {"devices_invalidate", "faults_invalidate", "updateStatsCache"}
          /\ statsCacheMutex.w = q \/ q \in statsCacheMutex.r
       \/ pc[p] = "GetDeviceStats_return" /\ statsCacheMutex.w = q
       \/ pc[p] = "updateStatsCache_devices" /\ devicesMutex.w = q
       \/ pc[p] = "updateStatsCache_faults" /\ faultsMutex.w = q

\* C3: no reachable state has calls that each wait for a lock the other holds
\* (which no scheduling, however fair, lets return).
C3_NoDeadlock ==
    ~ \E p, q \in Procs : BlockedOn(p, q) /\ BlockedOn(q, p)

C4_ConcurrentUpserts ==
    (response.kind = "GetAllDevices" /\ \A p \in Procs : done[p])
        => /\ response.len = NumProcs
           /\ { d.ID : d \in response.devices } = Procs
           /\ \A d \in response.devices : d \in UpsertDevices(d.ID)

\* The listing after the concurrent upserts has been returned.
C4_Witness ==
    /\ response.kind = "GetAllDevices"
    /\ \A p \in Procs : done[p]
    /\ response.len = NumProcs

\* C5: a GetDevice of the ID of the device whose AddDevice has just returned
\* finds exactly the device handed to AddDevice, whatever was stored before.
C5_GetAfterUpsert ==
    (/\ response.kind = "GetDevice"
     /\ response.after.kind = "AddDevice"
     /\ response.after.arg.ID = response.deviceID)
        => response.found = [exists |-> TRUE, value |-> response.after.arg]

\* GetDevice returned the device just upserted into a store holding others.
C5_Witness ==
    /\ response.kind = "GetDevice"
    /\ response.after.kind = "AddDevice"
    /\ response.after.arg.ID = response.deviceID
    /\ response.found.exists
    /\ response.found.value = response.after.arg
    /\ Cardinality(DOMAIN devices) > 1

\* C6: after AddDevice has written a device whose ID was already stored, the
\* stored device is the one written with no field of the old one left, the
\* number of devices is the same and every other device is unchanged.
C6_UpsertReplaces ==
    \A p \in Procs :
        (/\ pc[p] \in {"devices_invalidate", "devices_unlock"}
         /\ local[p].op = "AddDevice"
         /\ local[p].arg.ID \in DOMAIN local[p].m)
            => /\ devices[local[p].arg.ID] = local[p].arg
               /\ Cardinality(DOMAIN devices) = Cardinality(DOMAIN local[p].m)
               /\ \A k \in DOMAIN local[p].m \ {local[p].arg.ID} :
                      k \in DOMAIN devices /\ devices[k] = local[p].m[k]

\* A device with tags and a connection status was overwritten by one with
\* neither, next to another stored device.
C6_Witness ==
    \E p \in Procs :
        /\ pc[p] = "devices_unlock"
        /\ local[p].op = "AddDevice"
        /\ local[p].arg.ID \in DOMAIN local[p].m
        /\ local[p].m[local[p].arg.ID].Tags = {"x"}
        /\ local[p].m[local[p].arg.ID].ConnectionStatus = "connected"
        /\ local[p].arg.Tags = {}
        /\ Cardinality(DOMAIN devices) > 1

\* C7 as stated: a GetDeviceStats made less than a minute after the previous
\* one returned, with no mutation in between, returns the same snapshot.
C7_SameSnapshotWithinMinuteOfCall ==
    (/\ response.kind = "GetDeviceStats"
     /\ response.prev.id # 0
     /\ response.calledAt - response.prev.calledAt < Minute)
        => response.snap.id = response.prev.id

\* C7: a GetDeviceStats made less than a minute after the snapshot that the
\* previous one returned was computed, with no mutation and no recompute in
\* between, returns the same snapshot.
C7_SameSnapshotWithinMinuteOfCompute ==
    (/\ response.kind = "GetDeviceStats"
     /\ response.prev.id # 0
     /\ response.calledAt - response.prev.computedAt < Minute)
        => response.snap.id = response.prev.id

\* A second GetDeviceStats, later on the clock, returned the first one's
\* snapshot.
C7_Witness ==
    /\ response.kind = "GetDeviceStats"
    /\ response.prev.id # 0
    /\ response.calledAt > response.prev.calledAt
    /\ response.calledAt - response.prev.computedAt < Minute
    /\ response.snap.id = response.prev.id

\* C8: the cache is not fresh before the first recompute; it is fresh exactly
\* when a recompute has stored it less than a minute ago and no mutator has
\* invalidated it since; a GetDeviceStats that did not find it fresh returns
\* after a recompute stored a snapshot stamped no earlier than the call.
C8_CacheValidity ==
    /\ computed.at = NilTime => ~IsFresh
    /\ IsFresh <=> (/\ computed.at # NilTime
                    /\ ~computed.invalidated
                    /\ now - computed.at < Minute)
    /\ \A p \in Procs :
          pc[p] = "GetDeviceStats_return"
              => computed.at # NilTime /\ computed.at >= local[p].calledAt

\* A cache that nobody invalidated was found a minute old and recomputed.
C8_Witness ==
    \E p \in Procs :
        /\ pc[p] = "GetDeviceStats_return"
        /\ local[p].prev.id # 0
        /\ local[p].calledAt - local[p].prev.computedAt = Minute
        /\ statsCacheTime = local[p].calledAt

\* C9: the snapshot a recompute stores, and the one GetDeviceStats returns for
\* a registry that is not mutated meanwhile, equals the reference aggregate of
\* the registry.
C9_SnapshotIsAggregate ==
    /\ pc[Main] = "GetDeviceStats_return" => statsCache.stats = RefStats(devices, faults)
    /\ response.kind = "GetDeviceStats" => response.snap.stats = RefStats(devices, faults)

\* Three devices, two online, one without a vendor; one critical active fault
\* and one minor resolved fault: 3, 2, 1, 1, 1 and a bucket "Unknown".
C9_Witness ==
    /\ response.kind = "GetDeviceStats"
    /\ { faults[k].Status : k \in DOMAIN faults } = {FaultStatusActive, FaultStatusResolved}
    /\ { devices[k].Manufacturer : k \in DOMAIN devices } = {"", "Acme"}
    /\ response.snap.stats.TotalDevices = 3
    /\ response.snap.stats.OnlineDevices = 2
    /\ response.snap.stats.OfflineDevices = 1
    /\ response.snap.stats.ActiveFaults = 1
    /\ response.snap.stats.CriticalFaults = 1
    /\ "Unknown" \in DOMAIN response.snap.stats.DevicesByVendor

\* The answer of the store's AcknowledgeFault or ResolveFault for an
\* identifier that is not stored.
NotFound(op, faultID) == [kind |-> op, faultID |-> faultID, err |-> ErrFaultNotFound]

\* A step of an AcknowledgeFault call for an identifier that is not stored
\* answers ErrFaultNotFound and changes neither the faults nor the cache.
C11_AckMissingStep ==
    \A p \in Procs, id \in SeqFaultIDs, by \in SeqActors :
        (id \notin DOMAIN faults /\ Web_AcknowledgeFault(p, id, by))
            => /\ response' = NotFound("AcknowledgeFault", id)
               /\ UNCHANGED <<registry, cache>>

\* C11: AcknowledgeFault for an identifier that is not in the fault map
\* returns ErrFaultNotFound, leaves the fault map unchanged and leaves the
\* cache as it was: the same snapshot, the same timestamp, fresh if it was.
C11_AckMissing ==
    /\ [][C11_AckMissingStep]_vars
    /\ [](\A id \in SeqFaultIDs :
            response = NotFound("AcknowledgeFault", id) => id \notin DOMAIN faults)

\* ErrFaultNotFound was returned while a fault is stored and the cache is fresh.
C11_Witness ==
    /\ \E id \in SeqFaultIDs : response = NotFound("AcknowledgeFault", id)
    /\ DOMAIN faults # {}
    /\ IsFresh
    /\ statsCache.stats.ActiveFaults = 1

\* C12: no step of an acknowledge, resolve or delete request moves the status
\* of a fault backwards (resolved to acknowledged or active, acknowledged to
\* active), and none moves a resolved fault to expired.
C12_MonotonicStatus ==
    [][\A id \in DOMAIN faults :
          (id \in DOMAIN faults'
           /\ \E p \in Procs : pc[p] \in {"AcknowledgeFault", "ResolveFault", "SBI_DeleteFault"})
              => /\ faults[id].Status = FaultStatusResolved
                       => faults'[id].Status \notin {FaultStatusActive, FaultStatusAcknowledged,
                                                     FaultStatusExpired}
                 /\ faults[id].Status = FaultStatusAcknowledged
                       => faults'[id].Status # FaultStatusActive]_vars

\* C13: no acknowledge request reaches the store's write for a fault that is
\* acknowledged or resolved, and no resolve request for one that is resolved:
\* such a request is rejected and the fault is left as it is.
C13_RepeatRejected ==
    \A p \in Procs :
        /\ pc[p] = "AcknowledgeFault"
              => faults[local[p].arg.faultID].Status
                     \notin {FaultStatusAcknowledged, FaultStatusResolved}
        /\ pc[p] = "ResolveFault"
              => faults[local[p].arg.faultID].Status # FaultStatusResolved

\* C14: the store's AcknowledgeFault on a stored fault, whatever its status,
\* answers no error; it sets the status to acknowledged and the actor and
\* time to those of the call, changes no other field and no other fault, and
\* has reset the cache time when it unlocks.
C14_StoreAcknowledge ==
    /\ \A p \in Procs :
          (pc[p] \in {"faults_invalidate", "faults_unlock"}
           /\ local[p].op = "AcknowledgeFault")
              => LET id == local[p].arg.faultID
                     old == local[p].m
                 IN  /\ DOMAIN faults = DOMAIN old
                     /\ faults[id] = [old[id] EXCEPT
                                         !.Status = FaultStatusAcknowledged,
                                         !.AcknowledgedBy = local[p].arg.by,
                                         !.AcknowledgedAt = now]
                     /\ \A k \in DOMAIN old \ {id} : faults[k] = old[k]
                     /\ pc[p] = "faults_unlock" => statsCacheTime = ZeroTime
    /\ \A id \in SeqFaultIDs :
          response = NotFound("AcknowledgeFault", id) => id \notin DOMAIN faults

\* A resolved fault acknowledged earlier by alice was acknowledged by bob,
\* next to another fault.
C14_Witness ==
    \E p \in Procs :
        /\ pc[p] = "faults_unlock"
        /\ local[p].op = "AcknowledgeFault"
        /\ local[p].m[local[p].arg.faultID].Status = FaultStatusResolved
        /\ local[p].m[local[p].arg.faultID].AcknowledgedBy = "alice"
        /\ faults[local[p].arg.faultID].AcknowledgedBy = "bob"
        /\ Cardinality(DOMAIN faults) > 1

\* A step of a ResolveFault call for an identifier that is not stored answers
\* ErrFaultNotFound and changes neither the faults nor the cache.
C15_ResolveMissingStep ==
    \A p \in Procs, id \in SeqFaultIDs, by \in Actors :
        (id \notin DOMAIN faults /\ Web_ResolveFault(p, id, by))
            => /\ response' = NotFound("ResolveFault", id)
               /\ UNCHANGED <<registry, cache>>

\* The state after the write of a ResolveFault call on a stored fault.
C15_ResolvePresent ==
    \A p \in Procs :
        (pc[p] \in {"faults_invalidate", "faults_unlock"} /\ local[p].op = "ResolveFault")
            => LET id == local[p].arg.faultID
                   old == local[p].m
               IN  /\ DOMAIN faults = DOMAIN old
                   /\ faults[id] = [old[id] EXCEPT
                                       !.Status = FaultStatusResolved,
                                       !.ResolvedBy = local[p].arg.by,
                                       !.ResolvedAt = now]
                   /\ \A k \in DOMAIN old \ {id} : faults[k] = old[k]
                   /\ pc[p] = "faults_unlock" => statsCacheTime = ZeroTime

\* C15: ResolveFault for an identifier that is not stored returns
\* ErrFaultNotFound and changes neither the fault map nor the cache; for a
\* stored fault it sets status, actor and time of the resolution, leaves the
\* acknowledgement fields and every other fault as they were, and has reset
\* the cache time when it unlocks.
C15_Resolve ==
    /\ [][C15_ResolveMissingStep]_vars
    /\ []C15_ResolvePresent

\* A fault acknowledged by alice was resolved by bob, next to another fault.
C15_Witness ==
    \E p \in Procs :
        /\ pc[p] = "faults_unlock"
        /\ local[p].op = "ResolveFault"
        /\ faults[local[p].arg.faultID].AcknowledgedBy = "alice"
        /\ faults[local[p].arg.faultID].ResolvedBy = "bob"
        /\ Cardinality(DOMAIN faults) > 1

\* No step takes an identifier out of the fault map, and the status expired
\* of a fault changes only in the write of an AddFault, AcknowledgeFault or
\* ResolveFault call.
C16_FaultsStayStep ==
    /\ DOMAIN faults \subseteq DOMAIN faults'
    /\ \A id \in DOMAIN faults :
          (faults[id].Status = FaultStatusExpired /\ faults'[id].Status # FaultStatusExpired)
              => \E p \in Procs : pc[p] \in {"AddFault", "AcknowledgeFault", "ResolveFault"}

\* C16: the identifiers in the fault map only grow under upsert, acknowledge,
\* resolve and the delete endpoint, and a GetFault after the delete endpoint
\* has succeeded finds the fault, with status expired.
C16_FaultsNeverRemoved ==
    /\ [][C16_FaultsStayStep]_vars
    /\ []((/\ response.kind = "GetFault"
            /\ response.after.kind = "AddFault"
            /\ response.after.via = "SBI_DeleteFault_AddFault"
            /\ response.after.arg.ID = response.faultID)
              => /\ response.found.exists
                 /\ response.found.value.Status = FaultStatusExpired
                 /\ response.found.value.Expiry # NilTime)

\* GetFault found a fault the delete endpoint has just deleted.
C16_Witness ==
    /\ response.kind = "GetFault"
    /\ response.after.kind = "AddFault"
    /\ response.after.via = "SBI_DeleteFault_AddFault"
    /\ response.after.arg.ID = response.faultID
    /\ response.found.exists
    /\ response.found.value.Status = FaultStatusExpired

\* The devices GetAllDevices returns.
Stored == { devices[k] : k \in DOMAIN devices }

\* A filtered listing has just returned: the caller is idle again and no call
\* has returned since, so the registry is the one the listing read.
Listed == pc[Main] = "idle" /\ response.kind = "GetFilteredDevices"

\* The spec's criteria other than the tags: each one that is specified holds
\* of the device, strings compared letter for letter.
OtherCriteriaMatch(d, f) ==
    /\ f.Manufacturer = "" \/ d.Manufacturer = f.Manufacturer
    /\ f.ModelName = "" \/ d.ModelName = f.ModelName
    /\ f.ProductClass = "" \/ d.ProductClass = f.ProductClass
    /\ f.Online = {} \/ d.Online \in f.Online

\* The spec's predicate: the other criteria, and every listed tag on the device.
EveryCriterionMatches(d, f) ==
    /\ OtherCriteriaMatch(d, f)
    /\ \A i \in 1..Len(f.Tags) : f.Tags[i] \in d.Tags

\* Ranges of the IP-range criterion: one around a stored address, one that is
\* a single stored address, one of empty strings.
IPRanges ==
    { [StartIP |-> "10.0.0.5", EndIP |-> "10.0.0.9"],
      [StartIP |-> "10.0.0.1", EndIP |-> "10.0.0.1"],
      [StartIP |-> "", EndIP |-> ""] }

\* C17: a filtered listing with a filter returns exactly the stored devices
\* for which every specified criterion matches: equal manufacturer, model and
\* product class where these are not empty, equal online flag where it is set,
\* and all the listed tags on the device; none when no device matches.
C17_FilteredListing ==
    (Listed /\ response.filter # NilFilter) =>
        response.devices = { d \in Stored : EveryCriterionMatches(d, response.filter) }

\* A listing by manufacturer, model, class, online flag and two tags that
\* returns some of the stored devices and leaves out another.
C17_Witness ==
    /\ Listed
    /\ response.filter # NilFilter
    /\ response.filter.Manufacturer = "Acme"
    /\ response.filter.Online = {TRUE}
    /\ Len(response.filter.Tags) = 2
    /\ response.devices # {}
    /\ response.devices # Stored
    /\ \E d \in Stored \ response.devices : "x" \in d.Tags

\* C18: a filtered listing with the nil filter or with the filter of no
\* criteria returns what GetAllDevices returns, and a filter with no tags
\* returns the devices its other criteria match, whatever their tags.
C18_NoFilterListsAll ==
    Listed =>
        /\ response.filter \in {NilFilter, EmptyFilter} => response.devices = Stored
        /\ (response.filter # NilFilter /\ response.filter.Tags = <<>>) =>
               response.devices = { d \in Stored : OtherCriteriaMatch(d, response.filter) }

\* A listing with the nil filter of a registry of two devices with different
\* tags, manufacturers and online flags.
C18_Witness ==
    /\ Listed
    /\ response.filter \in {NilFilter, EmptyFilter}
    /\ Cardinality(response.devices) = 2
    /\ \E d, e \in response.devices :
           /\ d.Tags = {} /\ e.Tags # {}
           /\ d.Online # e.Online

\* C19: the IP-range criterion excludes no device: a filtered listing returns
\* the same devices as the filter without its range does, and for each stored
\* device the predicate is the same without a range and with any range.
C19_IPRangeIgnored ==
    (Listed /\ response.filter # NilFilter) =>
        /\ response.devices =
               { d \in Stored : matchesFilter(d, [response.filter EXCEPT !.IPRange = {}]) }
        /\ \A d \in Stored : \A r \in IPRanges :
               matchesFilter(d, [response.filter EXCEPT !.IPRange = {r}])
                   = matchesFilter(d, [response.filter EXCEPT !.IPRange = {}])

\* A listing with a range that returns a device whose address is outside it
\* and one without an address.
C19_Witness ==
    /\ Listed
    /\ response.filter # NilFilter
    /\ response.filter.IPRange = {[StartIP |-> "10.0.0.5", EndIP |-> "10.0.0.9"]}
    /\ \E d, e \in response.devices : d.IPAddress = "10.0.0.1" /\ e.IPAddress = ""

\* C20: a filtered listing changes neither the device map, nor the fault map,
\* nor a field of a device, nor the statistics cache and its time.
C20_FilterIsPure ==
    [][(pc[Main] = "idle" /\ pc'[Main] = "idle" /\ response'.kind = "GetFilteredDevices")
           => UNCHANGED <<registry, cache, mutexes>>]_vars

\* A listing that returned devices while the statistics cache was fresh; the
\* cache still is.
C20_Witness ==
    /\ Listed
    /\ response.devices # {}
    /\ response.devices # Stored
    /\ IsFresh
    /\ statsCache.stats.TotalDevices = 2

\* The flags and the error of a status record.
Content(status) ==
    <<status.CWMPConnected, status.NBIConnected, status.FSConnected, status.LastError>>

\* C21: an update that has assigned holds the caller's flags and error and
\* the time of the assignment, not the caller's time of check; no update
\* leaves the record changed in part once it returns; and a read returns the
\* flags and the error of one update, or of the initial record.
C21_StatusAtomic ==
    /\ \A p \in Procs :
           pc[p] = "status_unlock" =>
               /\ genieACSStatus = [local[p].arg EXCEPT !.LastCheck = local[p].at]
               /\ local[p].at \in 0..now
    /\ \A p \in Procs :
           pc[p] = "status_return" =>
               \E u \in {ZeroStatus} \cup StatusInputs(0) :
                   Content(local[p].status) = Content(u)
    /\ response.kind = "GetGenieACSStatus" =>
           /\ \E u \in {ZeroStatus} \cup StatusInputs(0) :
                  Content(response.status) = Content(u)
           /\ response.status.LastCheck \in {ZeroTime} \cup 0..now

\* A read that returned the record of the later of two updates, with the
\* time of the assignment where the caller had given none, after both
\* goroutines have made calls.
C21_Witness ==
    /\ response.kind = "GetGenieACSStatus"
    /\ response.status.LastError = "NBI service not available"
    /\ ~response.status.CWMPConnected
    /\ response.status.LastCheck = TickSeconds
    /\ \A p \in Procs : done[p]

\* C22: a fault read by the handler GetFault while it is acknowledged is the
\* fault before the acknowledgement or after it: active with no actor, or
\* acknowledged with the actor of an acknowledgement.
C22_NoPartialRead ==
    response.kind = "SBI_GetFault" =>
        \/ response.Status = FaultStatusActive /\ response.AcknowledgedBy = ""
        \/ response.Status = FaultStatusAcknowledged /\ response.AcknowledgedBy \in SeqActors

\* C23: no device is stored under the empty identifier.
C23_NoEmptyIdentifier == "" \notin DOMAIN devices

\* The device map m without the identifier id.
Without(m, id) == [x \in DOMAIN m \ {id} |-> m[x]]

\* C24: the delete of RemoveDevice leaves the device map without the
\* identifier, which is the same map when the identifier was not stored, and
\* leaves the other devices and the faults as they were; removing an
\* identifier from such a map again gives the same map.
C24_RemoveStep ==
    \A p \in Procs :
        (pc[p] = "RemoveDevice" /\ pc'[p] # "RemoveDevice") =>
            /\ devices' = Without(devices, local[p].arg)
            /\ local[p].arg \notin DOMAIN devices => devices' = devices
            /\ Without(devices', local[p].arg) = devices'
            /\ faults' = faults

C24_RemoveIdempotent ==
    /\ [][C24_RemoveStep]_vars
    /\ [](\A p \in Procs :
            (local[p].op = "RemoveDevice" /\ pc[p] \in {"devices_invalidate", "devices_unlock"})
                => /\ local[p].arg \notin DOMAIN devices
                   /\ devices = Without(local[p].m, local[p].arg))

\* A RemoveDevice of an identifier that is not stored has left a device and a
\* fault in place.
C24_Witness ==
    \E p \in Procs :
        /\ local[p].op = "RemoveDevice"
        /\ pc[p] = "devices_unlock"
        /\ local[p].arg \notin DOMAIN local[p].m
        /\ devices # EmptyMap
        /\ faults # EmptyMap

\* C25: UpdateDeviceStatus of a stored device has set its online flag to the
\* argument, its last-seen time to the current time and its connection status
\* to "connected" or "disconnected", nothing else, and has invalidated the
\* cache when it returns; of an identifier that is not stored it changes
\* neither the maps nor the cache and stores no device.
C25_UpdateStored ==
    \A p \in Procs :
        (local[p].op = "UpdateDeviceStatus" /\ pc[p] \in {"devices_invalidate", "devices_unlock"}) =>
            LET id == local[p].arg.deviceID
                old == local[p].m
            IN  /\ DOMAIN devices = DOMAIN old
                /\ \A x \in DOMAIN old \ {id} : devices[x] = old[x]
                /\ devices[id] = [old[id] EXCEPT
                                    !.Online = local[p].arg.online,
                                    !.LastSeen = now,
                                    !.ConnectionStatus =
                                        IF local[p].arg.online THEN "connected"
                                        ELSE "disconnected"]
                /\ pc[p] = "devices_unlock" => statsCacheTime = ZeroTime

C25_UpdateMissingStep ==
    (pc[Main] = "idle" /\ pc'[Main] = "idle" /\ response'.kind = "UpdateDeviceStatus") =>
        /\ response'.missing \notin DOMAIN devices
        /\ UNCHANGED <<registry, cache>>

C25_SetDeviceOnline == [][C25_UpdateMissingStep]_vars /\ []C25_UpdateStored

\* An update of an identifier that is not stored has returned while the cache
\* is fresh and counts a device that an earlier update took offline.
C25_Witness ==
    /\ pc[Main] = "idle"
    /\ response.kind = "UpdateDeviceStatus"
    /\ "missing" \in DOMAIN response
    /\ response.missing \notin DOMAIN devices
    /\ IsFresh
    /\ statsCache.stats.OfflineDevices = 1
    /\ \E x \in DOMAIN devices :
           /\ devices[x].ConnectionStatus = "disconnected"
           /\ devices[x].LastSeen = now
           /\ devices[x].Tags = {"x"}

\* C26: the faults GetActiveFaults returns are exactly the stored faults whose
\* status is active or acknowledged, and they are as many as the activeFaults
\* of a snapshot computed from the registry it read, and of the cached
\* snapshot when that is fresh.
C26_ActiveFaults ==
    (pc[Main] = "idle" /\ response.kind = "GetActiveFaults") =>
        /\ response.faults =
               { f \in { faults[k] : k \in DOMAIN faults } :
                   f.Status \in {FaultStatusActive, FaultStatusAcknowledged} }
        /\ \A f \in response.faults :
               f.Status \notin {FaultStatusResolved, FaultStatusExpired}
        /\ Cardinality(response.faults) = ComputeStats(devices, faults).ActiveFaults
        /\ IsFresh => Cardinality(response.faults) = statsCache.stats.ActiveFaults

\* A listing of one acknowledged fault beside a resolved or expired one,
\* while the cache is fresh.
C26_Witness ==
    /\ pc[Main] = "idle"
    /\ response.kind = "GetActiveFaults"
    /\ \E f \in response.faults : f.Status = FaultStatusAcknowledged
    /\ Cardinality(response.faults) = 1
    /\ Cardinality(DOMAIN faults) = 2
    /\ IsFresh

\* Goroutine p holds the lock m, in either mode.
Holds(m, p) == m.w = p \/ p \in m.r

\* C27: no goroutine holds the devices lock and the faults lock together,
\* but for the recompute of the statistics, which takes the faults read lock
\* for its scan while it holds the devices read lock, and not the other way
\* round.
C27_RegistryLocksApart ==
    \A p \in Procs :
        /\ pc[p] # "updateStatsCache_faults" =>
               ~(Holds(devicesMutex, p) /\ Holds(faultsMutex, p))
        /\ Holds(devicesMutex, p) =>
               pc[p] \in {"AddDevice", "RemoveDevice", "UpdateDeviceStatus",
                          "devices_invalidate", "devices_unlock", "updateStatsCache_faults"}
        /\ pc[p] = "updateStatsCache_faults" =>
               /\ p \in devicesMutex.r /\ devicesMutex.w = NoProc
               /\ statsCacheMutex.w = p
        /\ Holds(faultsMutex, p) =>
               pc[p] \in {"AddFault", "AcknowledgeFault", "ResolveFault",
                          "faults_invalidate", "faults_unlock"}

\* The recompute holds the devices read lock and is about to take the faults
\* read lock, which a fault mutator holds for writing.
C27_Witness ==
    \E p, q \in Procs :
        /\ pc[p] = "updateStatsCache_faults"
        /\ p \in devicesMutex.r
        /\ faultsMutex.w = q
        /\ pc[q] = "AcknowledgeFault"

\* C28: while a goroutine recomputes the statistics and has not yet scanned
\* the maps, a goroutine that calls GetDeviceStats with a fresh cache can
\* take the read lock of the cache: the recompute does not hold the exclusive
\* lock before its scan.
C28_FreshReaderNotBlocked ==
    \A p, q \in Procs :
        (/\ pc[p] \in {"updateStatsCache_devices", "updateStatsCache_faults"}
         /\ pc[q] = "idle"
         /\ IsFresh)
            => CanRLock(statsCacheMutex)

\* C29: the published snapshot changes only in the step of a recompute that
\* stores a new snapshot object built from the device and fault maps; every
\* other step, the mutators' among them, leaves the snapshot reference and the
\* content of the snapshot as they were.
C29_SnapshotStep ==
    statsCache' # statsCache =>
        /\ \E p \in Procs :
               pc[p] = "updateStatsCache_faults" /\ pc'[p] = "GetDeviceStats_return"
        /\ statsCache'.id # statsCache.id
        /\ statsCache'.stats = ComputeStats(devices, faults)

C29_SnapshotDerivedOnly ==
    /\ [][C29_SnapshotStep]_vars
    /\ []((response.kind = "GetDeviceStats" /\ response.snap.id = statsCache.id)
              => response.snap = statsCache)

\* A mutator has invalidated the cache of a recomputed snapshot, which still
\* holds the counts of the registry before the mutation.
C29_Witness ==
    /\ statsCacheTime = ZeroTime
    /\ statsCache.id # 1
    /\ statsCache.stats.TotalDevices = 1
    /\ statsCache.stats # ComputeStats(devices, faults)
    /\ \E p \in Procs : pc[p] = "devices_unlock"

\* C30: the instance is allocated once, with empty device and fault maps, and
\* never replaced; every GetContext returns that instance, the same as the
\* GetContext before it; and a device stored through one goroutine's
\* reference is found through another's.
C30_AllocatedOnce ==
    context' # context =>
        /\ context = NilContext /\ context' # NilContext
        /\ devices' = EmptyMap /\ faults' = EmptyMap
        /\ statsCache'.stats = InitialStats

C30_Singleton ==
    /\ [][C30_AllocatedOnce]_vars
    /\ [](response.kind = "GetContext" =>
              /\ response.ref # NilContext
              /\ response.ref = context
              /\ response.prev # NilContext => response.prev = response.ref)
    /\ []((/\ response.kind = "GetDevice"
           /\ response.after.kind = "AddDevice"
           /\ response.after.arg.ID = response.deviceID)
              => /\ response.found.exists
                 /\ response.found.value = response.after.arg)

\* Both goroutines have called GetContext, the second while the first was
\* allocating, and got the same instance; a device stored by one is held.
C30_Witness ==
    /\ response.kind = "GetContext"
    /\ response.prev = response.ref
    /\ response.by # response.ref
    /\ \A p \in Procs : done[p]
    /\ devices # EmptyMap

\* C31: GetDeviceBySerial answers found exactly when a stored device has the
\* serial number of the argument; the device it returns is a stored device with
\* that serial number, and none is returned when none is found; the call
\* leaves the store and the cache as they are.
C31_SerialResult ==
    response.kind = "GetDeviceBySerial" =>
        /\ response.found <=>
               \E k \in DOMAIN devices : devices[k].SerialNumber = response.serial
        /\ response.found =>
               /\ response.device.SerialNumber = response.serial
               /\ \E k \in DOMAIN devices : devices[k] = response.device
        /\ ~response.found => "device" \notin DOMAIN response

C31_SerialStep ==
    response'.kind = "GetDeviceBySerial" => UNCHANGED <<registry, cache, mutexes>>

C31_GetDeviceBySerial == [][C31_SerialStep]_vars /\ []C31_SerialResult

\* A lookup found a device while another stored device has another serial
\* number.
C31_Witness ==
    /\ response.kind = "GetDeviceBySerial"
    /\ response.found
    /\ response.serial = "S2"
    /\ \E k \in DOMAIN devices : devices[k].SerialNumber = "S1"

\* The sum of the counts of a histogram.
RECURSIVE SumOf(_)
SumOf(m) ==
    IF DOMAIN m = {} THEN 0
    ELSE LET k == CHOOSE x \in DOMAIN m : TRUE
         IN  m[k] + SumOf(MapDelete(m, k))

\* A snapshot whose counts agree with each other.
Consistent(stats) ==
    /\ stats.TotalDevices = stats.OnlineDevices + stats.OfflineDevices
    /\ SumOf(stats.DevicesByVendor) = stats.TotalDevices
    /\ SumOf(stats.DevicesByModel) = stats.TotalDevices
    /\ "" \notin DOMAIN stats.DevicesByVendor
    /\ "" \notin DOMAIN stats.DevicesByModel
    /\ \A k \in DOMAIN stats.DevicesByVendor : stats.DevicesByVendor[k] >= 1
    /\ \A k \in DOMAIN stats.DevicesByModel : stats.DevicesByModel[k] >= 1
    /\ 0 <= stats.CriticalFaults
    /\ stats.CriticalFaults <= stats.ActiveFaults

\* C32: every snapshot GetDeviceStats returns is an allocated object whose
\* counts agree: total = online + offline = the sum of either histogram, no
\* bucket has the empty key or a count below 1, and
\* 0 <= critical <= active <= the number of stored faults.
C32_SnapshotConsistent ==
    response.kind = "GetDeviceStats" =>
        /\ response.snap.id \in SnapIDs
        /\ Consistent(response.snap.stats)
        /\ response.snap.stats.ActiveFaults <= Cardinality(DOMAIN faults)

\* A snapshot of devices that share a bucket, with an "Unknown" bucket, and of
\* faults of which some are active and fewer critical.
C32_Witness ==
    /\ response.kind = "GetDeviceStats"
    /\ response.snap.stats.TotalDevices = 3
    /\ "Unknown" \in DOMAIN response.snap.stats.DevicesByVendor
    /\ \E k \in DOMAIN response.snap.stats.DevicesByModel :
          response.snap.stats.DevicesByModel[k] = 2
    /\ response.snap.stats.OnlineDevices = 1
    /\ response.snap.stats.CriticalFaults = 1
    /\ response.snap.stats.ActiveFaults = 2

\* C33: a step of the fault listing leaves the status, the actors and the
\* times of a stored fault that is acknowledged, resolved or expired.
C33_RefreshStep ==
    pc[Main] = "SBI_GetFaults" =>
        \A id \in DOMAIN faults :
            faults[id].Status # FaultStatusActive => faults'[id] = faults[id]

C33_RefreshKeepsStatus == [][C33_RefreshStep]_vars

\* C34: an acknowledge request of the SBI that is answered with success has
\* acknowledged a fault that was still active when its acknowledgement took
\* the lock, so that of two requests for one fault at most one succeeds.
C34_AckStep ==
    \A p \in Procs :
        (/\ pc[p] = "faults_unlock" /\ pc'[p] = "idle"
         /\ local[p].op = "AcknowledgeFault"
         /\ local[p].via = "SBI_AcknowledgeFault")
            => local[p].m[local[p].arg.faultID].Status = FaultStatusActive

C34_OneAcknowledgement == [][C34_AckStep]_vars

\* C35: a delete request of the SBI that is rejected (fault not stored, fault
\* active without force) or whose ACS call fails leaves store and cache as they
\* are; a fault becomes expired only by the step that follows the successful
\* ACS call, and the request then answers with the fault stored expired, with
\* an expiry time, and the cache invalidated.
C35_DeleteStep ==
    /\ (pc'[Main] = "SBI_DeleteFault" \/ response'.kind = "SBI_DeleteFault")
          => UNCHANGED <<registry, cache>>
    /\ (pc[Main] = "idle" /\ response'.kind = "SBI_DeleteFault")
          => /\ response'.code = "NotFound" <=> response'.faultID \notin DOMAIN faults
             /\ response'.code = "BadRequest" <=>
                   /\ response'.faultID \in DOMAIN faults
                   /\ faults[response'.faultID].Status = FaultStatusActive
    /\ \A id \in DOMAIN faults :
          (faults[id].Status # FaultStatusExpired /\ faults'[id].Status = FaultStatusExpired)
              => /\ pc[Main] = "SBI_DeleteFault"
                 /\ pc'[Main] = "SBI_DeleteFault_AddFault"
                 /\ local[Main].arg.faultID = id
                 /\ faults'[id].Expiry = now

C35_DeleteAnswered ==
    (response.kind = "AddFault" /\ response.via = "SBI_DeleteFault_AddFault") =>
        /\ faults[response.arg.ID].Status = FaultStatusExpired
        /\ faults[response.arg.ID].Expiry # NilTime
        /\ statsCacheTime = ZeroTime

C35_DeleteFault == [][C35_DeleteStep]_vars /\ []C35_DeleteAnswered

\* A delete request has succeeded on one fault while the other is stored
\* active, after a snapshot had been computed.
C35_Witness ==
    /\ response.kind = "AddFault"
    /\ response.via = "SBI_DeleteFault_AddFault"
    /\ computed.at # NilTime
    /\ \E id \in DOMAIN faults : faults[id].Status = FaultStatusActive

\* C36: the tag set of a stored device changes only in a step of the
\* goroutine that holds the devices write lock, and so never while a filtered
\* listing holds the read lock.
C36_TagStep ==
    \A id \in DOMAIN devices \cap DOMAIN devices' :
        devices'[id].Tags # devices[id].Tags =>
            /\ \E p \in Procs : devicesMutex.w = p /\ pc'[p] # pc[p]
            /\ devicesMutex.r = {}

C36_WritesUnderLock == [][C36_TagStep]_vars

\* C37: RemoveDevice of an identifier that is not stored leaves the maps as
\* they are and has zeroed the cache time when it returns, so that the next
\* GetDeviceStats recomputes; the recompute that follows a snapshot stores a
\* new object with the values of the snapshot it replaces.
C37_RemoveMissingStep ==
    /\ (pc[Main] = "RemoveDevice" /\ pc'[Main] # "RemoveDevice")
          => UNCHANGED <<registry, cache>>
    /\ (pc[Main] = "updateStatsCache_faults" /\ pc'[Main] = "GetDeviceStats_return"
         /\ computed.at # NilTime)
          => /\ statsCache'.id # statsCache.id
             /\ statsCache'.stats = statsCache.stats

C37_RemoveMissingReturned ==
    response.kind = "RemoveDevice" =>
        /\ response.arg \notin DOMAIN devices
        /\ statsCacheTime = ZeroTime
        /\ ~IsFresh

C37_RemoveMissingInvalidates ==
    [][C37_RemoveMissingStep]_vars /\ []C37_RemoveMissingReturned

\* The statistics of a registry that holds a device have been read, an
\* identifier that is not stored has been removed, and the statistics have
\* been read again: the object returned is the one allocated third.
C37_Witness ==
    /\ response.kind = "GetDeviceStats"
    /\ response.snap.id = 1
    /\ response.snap.stats.TotalDevices = 1
    /\ computed.at # NilTime
    /\ ~computed.invalidated

\* C38: a resolve request of the SBI for a fault that is not stored or is
\* resolved is rejected and changes neither store nor cache; otherwise the
\* fault is stored resolved, with actor and time and the cache invalidated,
\* before the ACS is called, and whatever the ACS answers the store stays as
\* it is and the request is answered with success and the resolved fault.
C38_ResolveStep ==
    /\ (pc[Main] = "idle" /\ response'.kind = "SBI_ResolveFault")
          => /\ UNCHANGED <<registry, cache>>
             /\ response'.code = "NotFound" <=> response'.faultID \notin DOMAIN faults
             /\ response'.code = "BadRequest" <=>
                   /\ response'.faultID \in DOMAIN faults
                   /\ faults[response'.faultID].Status = FaultStatusResolved
    /\ (pc[Main] = "idle" /\ pc'[Main] = "SBI_ResolveFault")
          => UNCHANGED <<registry, cache>>
    /\ (pc[Main] = "SBI_ResolveFault" /\ pc'[Main] # "SBI_ResolveFault")
          => /\ pc'[Main] = "SBI_ResolveFault_ACS"
             /\ faults'[local[Main].arg.faultID].Status = FaultStatusResolved
             /\ faults'[local[Main].arg.faultID].ResolvedBy = local[Main].arg.by
             /\ faults'[local[Main].arg.faultID].ResolvedAt = now
             /\ statsCacheTime' = ZeroTime
    /\ (pc[Main] = "SBI_ResolveFault_ACS" /\ pc'[Main] # "SBI_ResolveFault_ACS")
          => /\ UNCHANGED <<registry, cache>>
             /\ response'.kind = "SBI_ResolveFault"
             /\ response'.code = "OK"

C38_ResolveAnswered ==
    (response.kind = "SBI_ResolveFault" /\ response.code = "OK") =>
        /\ response.fault.exists
        /\ response.fault.value = faults[response.faultID]
        /\ faults[response.faultID].Status = FaultStatusResolved

C38_ResolveFault == [][C38_ResolveStep]_vars /\ []C38_ResolveAnswered

\* A resolve request of an acknowledged fault was answered with success
\* although the ACS call failed.
C38_Witness ==
    /\ response.kind = "SBI_ResolveFault"
    /\ response.code = "OK"
    /\ response.acs = "failed"
    /\ faults[response.faultID].Status = FaultStatusResolved
    /\ faults[response.faultID].AcknowledgedBy # ""

\* What the query of a request asks for: the page and page size its texts
\* write, or 1 and 20, and the faults of the severity it names.
AskedPage(query) ==
    LET t == CHOOSE x \in PageTexts : x.text = query.page
    IN  IF t.numeric /\ t.value >= 1 THEN t.value ELSE 1

AskedPageSize(query) ==
    LET t == CHOOSE x \in PageSizeTexts : x.text = query.pageSize
    IN  IF t.numeric /\ t.value >= 1 /\ t.value <= 100 THEN t.value ELSE 20

AskedFaults(request) ==
    LET Asked(fault) ==
            request.query.severity = "" \/ fault.Severity = request.query.severity
    IN  SelectSeq(request.faults, Asked)

\* C39: the fault listing answers every request with the elements of the
\* filtered list at the indices from (page - 1) * pageSize up to, not
\* including, min(page * pageSize, n), none when (page - 1) * pageSize >= n,
\* with the total n, the page and the page size; page and page size are the
\* numbers of the query when these are at least 1 and, for the page size, at
\* most 100, else 1 and 20; the slice expression never panics.
C39_Pagination ==
    response.kind = "SBI_GetFaults" =>
        LET filtered == AskedFaults(response.request)
            n == Len(filtered)
            page == AskedPage(response.request.query)
            pageSize == AskedPageSize(response.request.query)
            first == (page - 1) * pageSize
            last == IF page * pageSize < n THEN page * pageSize ELSE n
        IN  /\ response.code = "OK"
            /\ response.total = n
            /\ response.page = page
            /\ response.pageSize = pageSize
            /\ response.faults = IF first >= n THEN << >> ELSE SubSeq(filtered, first + 1, last)
====
